---- MODULE Spec2Model ----
(***************************************************************************)
(* Runtime context and template resolution engine                          *)
(* (polyglot/overwrite_from_context, package runtime_template_resolver).   *)
(*                                                                         *)
(* Strings are sequences of one-character strings, so that the regular     *)
(* expressions and the split/startswith calls of the source are computed   *)
(* and not assumed.                                                        *)
(***************************************************************************)
EXTENDS Integers, Sequences, FiniteSets, TLC

VARIABLES
    functions,          \* ComputeRegistry._functions : name -> RegisteredFunction
    cache,              \* ComputeRegistry._cache     : name -> cached result
    missing_strategy,   \* ContextResolver._missing_strategy
    calls,              \* per function object: how often its body has run
    tasks,              \* in-flight coroutines (one record per worker task)
    last,               \* outcome of the call that completed most recently
    hist,               \* per name: bookkeeping since the last registry change
    nRegs,              \* registry changes made so far (register, unregister, clear...)
    nCalls,             \* resolving calls started so far
    app,                \* app.state of the FastAPI integration
    path,               \* argument handed to Security.validate_path
    verdict,            \* what Security.validate_path did with it
    raw,                \* argument handed to ContextResolver._parse_default
    parsed,             \* what _parse_default returned for it
    rtr_functions       \* polyglot/runtime_template_resolver: ComputeRegistry._functions

vars == <<functions, cache, missing_strategy, calls, tasks, last, hist, nRegs,
          nCalls, app, path, verdict, raw, parsed, rtr_functions>>

-----------------------------------------------------------------------------
(* Characters and strings                                                  *)

Lower == {"a","b","c","d","e","f","g","h","i","j","k","l","m",
          "n","o","p","q","r","s","t","u","v","w","x","y","z"}
Upper == {"A","B","C","D","E","F","G","H","I","J","K","L","M",
          "N","O","P","Q","R","S","T","U","V","W","X","Y","Z"}
Letter == Lower \cup Upper
Digit == {"0","1","2","3","4","5","6","7","8","9"}
NL == "\n"
Space == {" ", NL}
Quote == {"'", "\""}

\* the character classes of the regular expressions
NameHead == Letter \cup {"_"}
NameTail == Letter \cup Digit \cup {"_"}
PathHead == Letter
PathTail == Letter \cup Digit \cup {"_", "."}
TemplateChar == Letter \cup Digit \cup {"_", "."}

Drop(s, n) == SubSeq(s, n + 1, Len(s))
Take(s, n) == SubSeq(s, 1, n)

StartsWith(s, p) == Len(s) >= Len(p) /\ Take(s, Len(p)) = p

EndsWith(s, p) == Len(s) >= Len(p) /\ Drop(s, Len(s) - Len(p)) = p

Contains(s, p) == \E i \in 0..(Len(s) - Len(p)) : SubSeq(s, i + 1, i + Len(p)) = p

AllIn(s, class) == \A i \in 1..Len(s) : s[i] \in class

\* str.split(sep) for a one-character separator
RECURSIVE SplitAcc(_, _, _)
SplitAcc(s, sep, cur) ==
    IF s = <<>> THEN <<cur>>
    ELSE IF Head(s) = sep THEN <<cur>> \o SplitAcc(Tail(s), sep, <<>>)
    ELSE SplitAcc(Tail(s), sep, Append(cur, Head(s)))

Split(s, sep) == SplitAcc(s, sep, <<>>)

\* length of the longest prefix of s made of characters of class
RECURSIVE SpanLen(_, _)
SpanLen(s, class) ==
    IF s # <<>> /\ Head(s) \in class THEN 1 + SpanLen(Tail(s), class) ELSE 0

\* `$` of Python's re: the end of the string, or just before one final newline
BeforeDollar(s) == IF s # <<>> /\ s[Len(s)] = NL THEN {s, Take(s, Len(s) - 1)} ELSE {s}

-----------------------------------------------------------------------------
(* security.py                                                             *)

W_constructor == <<"c","o","n","s","t","r","u","c","t","o","r">>
W_prototype == <<"p","r","o","t","o","t","y","p","e">>
W_proto == <<"_","_","p","r","o","t","o","_","_">>
W_class == <<"_","_","c","l","a","s","s","_","_">>
W_dict == <<"_","_","d","i","c","t","_","_">>

BLOCKED_PATTERNS == {W_proto, W_class, W_dict, W_constructor, W_prototype}

\* PATH_PATTERN.match(path) for ^[a-zA-Z][a-zA-Z0-9_.]*$
PATH_PATTERN(p) ==
    \E core \in BeforeDollar(p) :
        /\ core # <<>>
        /\ core[1] \in PathHead
        /\ AllIn(Drop(core, 1), PathTail)

\* the first segment, in split order, that the loop of validate_path rejects
RECURSIVE SegmentCheck(_)
SegmentCheck(segments) ==
    IF segments = <<>> THEN "ok"
    ELSE IF Head(segments) \in BLOCKED_PATTERNS THEN "blocked_segment"
    ELSE IF StartsWith(Head(segments), <<"_">>) THEN "underscore_segment"
    ELSE SegmentCheck(Tail(segments))

\* validate_path without its final check for ".."
validate_path_no_traversal(p) ==
    IF p = <<>> THEN "empty"
    ELSE IF ~PATH_PATTERN(p) THEN "invalid"
    ELSE SegmentCheck(Split(p, "."))

\* Security.validate_path: "ok" when it returns, else the SecurityError raised
validate_path(p) ==
    IF p = <<>> THEN "empty"
    ELSE IF ~PATH_PATTERN(p) THEN "invalid"
    ELSE IF SegmentCheck(Split(p, ".")) # "ok" THEN SegmentCheck(Split(p, "."))
    ELSE IF Contains(p, <<".", ".">>) THEN "traversal"
    ELSE "ok"

-----------------------------------------------------------------------------
(* Values.  Every value is a record with the same three fields, so that    *)
(* values of different Python types can be compared.                       *)

Val(t, s, n) == [t |-> t, s |-> s, n |-> n]
None == Val("none", <<>>, 0)
BoolV(b) == Val("bool", <<>>, IF b THEN 1 ELSE 0)
IntV(n) == Val("int", <<>>, n)
FloatV(s) == Val("float", s, 0)
StrV(s) == Val("str", s, 0)
\* what the n-th run of the body of function object id returns
Ret(id, n) == Val("ret", <<id>>, n)
\* containers; a dict keeps its items in insertion order
Dict(kv) == [t |-> "dict", kv |-> kv]
List(l) == [t |-> "list", l |-> l]
KV(k, v) == [k |-> k, v |-> v]

-----------------------------------------------------------------------------
(* context_resolver.py: the two patterns                                   *)

OPEN == <<"{", "{">>
CLOSE == <<"}", "}">>
FNPREFIX == <<"{", "{", "f", "n", ":">>

NoMatch == [ok |-> FALSE, key |-> <<>>, hasDefault |-> FALSE, default |-> <<>>, group0 |-> <<>>]

\* the part of both patterns after the name or path:
\*   (\s*\|\s*['"](.*)['"])?\}\}   up to the end of core
PatternTail(t) ==
    IF t = CLOSE THEN [ok |-> TRUE, hasDefault |-> FALSE, default |-> <<>>]
    ELSE LET t2 == Drop(t, SpanLen(t, Space))
             t3 == Drop(t2, 1)
             t4 == Drop(t3, SpanLen(t3, Space))
             t5 == Drop(t4, 1)
             body == Take(t5, Len(t5) - 3)
         IN  IF /\ t2 # <<>> /\ Head(t2) = "|"
                /\ t4 # <<>> /\ Head(t4) \in Quote
                /\ Len(t5) >= 3
                /\ t5[Len(t5) - 2] \in Quote
                /\ Drop(t5, Len(t5) - 2) = CLOSE
                /\ ~(\E i \in 1..Len(body) : body[i] = NL)
             THEN [ok |-> TRUE, hasDefault |-> TRUE, default |-> body]
             ELSE [ok |-> FALSE, hasDefault |-> FALSE, default |-> <<>>]

MatchCore(core, prefix, headClass, tailClass, needHead) ==
    IF ~StartsWith(core, prefix) THEN NoMatch
    ELSE LET r == Drop(core, Len(prefix))
             k == IF needHead
                  THEN (IF r # <<>> /\ Head(r) \in headClass
                        THEN 1 + SpanLen(Tail(r), tailClass) ELSE 0)
                  ELSE SpanLen(r, tailClass)
             tl == PatternTail(Drop(r, k))
         IN  IF (needHead /\ k = 0) \/ ~tl.ok THEN NoMatch
             ELSE [ok |-> TRUE, key |-> Take(r, k), hasDefault |-> tl.hasDefault,
                   default |-> tl.default, group0 |-> core]

FirstMatch(e, prefix, headClass, tailClass, needHead) ==
    LET ms == {MatchCore(c, prefix, headClass, tailClass, needHead) : c \in BeforeDollar(e)}
    IN  IF \E m \in ms : m.ok THEN CHOOSE m \in ms : m.ok ELSE NoMatch

\* COMPUTE_PATTERN.match(expression): ^\{\{fn:([a-zA-Z_][a-zA-Z0-9_]*)(...)?\}\}$
COMPUTE_PATTERN(e) == FirstMatch(e, FNPREFIX, NameHead, NameTail, TRUE)

\* TEMPLATE_PATTERN.match(expression): ^\{\{([a-zA-Z0-9_.]*)(...)?\}\}$
TEMPLATE_PATTERN(e) == FirstMatch(e, OPEN, TemplateChar, TemplateChar, FALSE)

-----------------------------------------------------------------------------
(* context_resolver.py: _parse_default                                     *)

UpperSeq == <<"A","B","C","D","E","F","G","H","I","J","K","L","M",
             "N","O","P","Q","R","S","T","U","V","W","X","Y","Z">>
LowerSeq == <<"a","b","c","d","e","f","g","h","i","j","k","l","m",
             "n","o","p","q","r","s","t","u","v","w","x","y","z">>

LowerOf(c) ==
    IF c \in Upper THEN LowerSeq[CHOOSE i \in 1..26 : UpperSeq[i] = c] ELSE c

lower(s) == [i \in 1..Len(s) |-> LowerOf(s[i])]

DigitVal(c) ==
    CASE c = "0" -> 0 [] c = "1" -> 1 [] c = "2" -> 2 [] c = "3" -> 3 [] c = "4" -> 4
      [] c = "5" -> 5 [] c = "6" -> 6 [] c = "7" -> 7 [] c = "8" -> 8 [] c = "9" -> 9

RECURSIVE IntOf(_)
IntOf(s) == IF s = <<>> THEN 0 ELSE 10 * IntOf(Take(s, Len(s) - 1)) + DigitVal(s[Len(s)])

isdigit(s) == s # <<>> /\ AllIn(s, Digit)

\* digits with single underscores between them, as float() and int() accept
DigitPart(s) ==
    /\ s # <<>>
    /\ AllIn(s, Digit \cup {"_"})
    /\ s[1] # "_" /\ s[Len(s)] # "_"
    /\ ~Contains(s, <<"_", "_">>)

Unsigned(s) == IF s # <<>> /\ Head(s) \in {"+", "-"} THEN Tail(s) ELSE s

Mantissa(s) ==
    LET parts == Split(s, ".")
    IN  \/ Len(parts) = 1 /\ DigitPart(s)
        \/ /\ Len(parts) = 2
           /\ parts[1] # <<>> \/ parts[2] # <<>>
           /\ parts[1] = <<>> \/ DigitPart(parts[1])
           /\ parts[2] = <<>> \/ DigitPart(parts[2])

\* does float(val) succeed
IsFloat(val) ==
    LET a == Drop(val, SpanLen(val, Space))
        ws == CHOOSE k \in 0..Len(a) :
                  /\ AllIn(Drop(a, Len(a) - k), Space)
                  /\ (k = Len(a) \/ a[Len(a) - k] \notin Space)
        u == Unsigned(Take(a, Len(a) - ws))
        lu == lower(u)
        ePos == {i \in 1..Len(lu) : lu[i] = "e"}
    IN  \/ lu \in {<<"i","n","f">>, <<"n","a","n">>, <<"i","n","f","i","n","i","t","y">>}
        \/ Mantissa(lu)
        \/ \E i \in ePos : /\ Mantissa(Take(lu, i - 1))
                           /\ DigitPart(Unsigned(Drop(lu, i)))

_parse_default(val) ==
    IF lower(val) = <<"t","r","u","e">> THEN BoolV(TRUE)
    ELSE IF lower(val) = <<"f","a","l","s","e">> THEN BoolV(FALSE)
    ELSE IF isdigit(val) THEN IntV(IntOf(val))
    ELSE IF IsFloat(val) THEN FloatV(val)
    ELSE StrV(val)

-----------------------------------------------------------------------------
(* context_resolver.py: _get_value_by_path                                 *)

\* dict.get(key): the value of the last item with that key, else None
DictGet(node, key) ==
    LET hits == {i \in 1..Len(node.kv) : node.kv[i].k = key}
    IN  IF hits = {} THEN None
        ELSE node.kv[CHOOSE i \in hits : \A j \in hits : j <= i].v

\* walks the keys; a non-dict has none of the model's keys as an attribute.
\* Returns the value (None when absent) and the number of lookups made.
RECURSIVE WalkPath(_, _, _)
WalkPath(current, keys, n) ==
    IF keys = <<>> THEN [val |-> current, lookups |-> n]
    ELSE IF current.t = "dict"
         THEN LET nxt == DictGet(current, Head(keys))
              IN  IF nxt.t = "none" THEN [val |-> None, lookups |-> n + 1]
                  ELSE WalkPath(nxt, Tail(keys), n + 1)
         ELSE [val |-> None, lookups |-> n + 1]

_get_value_by_path(context, p) == WalkPath(context, Split(p, "."), 0)

-----------------------------------------------------------------------------
(* options.py, errors.py                                                   *)

STARTUP == "STARTUP"
REQUEST == "REQUEST"
ComputeScope == {STARTUP, REQUEST}
MissingStrategy == {"ERROR", "DEFAULT", "IGNORE"}

COMPUTE_FUNCTION_NOT_FOUND == "ERR_COMPUTE_NOT_FOUND"
COMPUTE_FUNCTION_FAILED == "ERR_COMPUTE_FAILED"
SECURITY_BLOCKED_PATH == "ERR_SECURITY_PATH"
RECURSION_LIMIT == "ERR_RECURSION_LIMIT"
SCOPE_VIOLATION == "ERR_SCOPE_VIOLATION"

\* ResolverOptions.max_depth of the resolver the host builds itself
max_depth == 1
\* ResolverOptions.max_depth when no options are given (create_resolver)
DEFAULT_MAX_DEPTH == 10

-----------------------------------------------------------------------------
(* The callables a host registers.  params says what the signature takes   *)
(* ("ctx": one required argument, "none": no argument, "opt": one optional *)
(* argument); with/noargs say how the body ends when it runs with or       *)
(* without the context: "ok" returns, "err" raises an exception other than *)
(* TypeError, "typeerr" raises TypeError.                                  *)

Fn(id, async, params, with, noargs) ==
    [id |-> id, async |-> async, params |-> params, with |-> with, noargs |-> noargs]

F_ctx == Fn("ctx", FALSE, "ctx", "ok", "-")             \* lambda ctx: v
F_noarg == Fn("noarg", FALSE, "none", "-", "ok")        \* lambda: v
F_fail == Fn("fail", FALSE, "ctx", "err", "-")          \* lambda ctx: 1 / 0
F_typeerr == Fn("typeerr", FALSE, "opt", "typeerr", "typeerr")
F_flaky == Fn("flaky", FALSE, "opt", "typeerr", "ok")
F_async == Fn("async", TRUE, "ctx", "ok", "-")          \* async def f(ctx)
F_afail == Fn("afail", TRUE, "ctx", "err", "-")

Fns == {F_ctx, F_noarg, F_fail, F_typeerr, F_flaky, F_async, F_afail}
FnIds == {f.id : f \in Fns}

\* every run of the body returns
ReturnsSuccessfully(f) == f.with \in {"ok", "-"} /\ f.noargs \in {"ok", "-"}

-----------------------------------------------------------------------------
(* compute_registry.py                                                     *)

N_f == <<"f">>
N_g == <<"g">>
Names == {N_f, N_g}
BadNames == {<<>>, <<"1", "f">>}

\* NAME_PATTERN.match(name) for ^[a-zA-Z_][a-zA-Z0-9_]*$
NAME_PATTERN(name) ==
    \E core \in BeforeDollar(name) :
        core # <<>> /\ core[1] \in NameHead /\ AllIn(Drop(core, 1), NameTail)

\* _validate_name: "ok" or the ValueError
_validate_name(name) ==
    IF name = <<>> THEN "empty"
    ELSE IF ~NAME_PATTERN(name) THEN "invalid"
    ELSE "ok"

has(name) == name \in DOMAIN functions

get_scope(name) == IF name \in DOMAIN functions THEN functions[name].scope ELSE "None"

Put(map, k, v) == [x \in DOMAIN map \cup {k} |-> IF x = k THEN v ELSE map[x]]

Del(map, k) == [x \in DOMAIN map \ {k} |-> map[x]]

Empty == [x \in {} |-> None]

\* the try block of resolve for a plain function: call with the context,
\* on TypeError call again without; runs counts the runs of the body
CallSync(f, done) ==
    LET first == IF f.params = "none" THEN "typeerr" ELSE f.with
        runs1 == IF f.params = "none" THEN 0 ELSE 1
        second == IF f.params = "ctx" THEN "typeerr" ELSE f.noargs
        runs2 == IF f.params = "ctx" THEN 0 ELSE 1
    IN  IF first = "ok" THEN [ok |-> TRUE, runs |-> runs1, val |-> Ret(f.id, done + runs1)]
        ELSE IF first = "err" THEN [ok |-> FALSE, runs |-> runs1, val |-> None]
        ELSE IF second = "ok"
             THEN [ok |-> TRUE, runs |-> runs1 + runs2, val |-> Ret(f.id, done + runs1 + runs2)]
             ELSE [ok |-> FALSE, runs |-> runs1 + runs2, val |-> None]

\* The registry state a call works on: st = [cache, calls, hist].
\* An outcome: k is "return", "raise" or "await" (a coroutine function was
\* called and its body is running); pend describes the awaited call.
NoPend == [name |-> <<>>, fn |-> F_ctx, scope |-> REQUEST, n |-> 0,
           via |-> "-", hasDefault |-> FALSE, default |-> <<>>]

Return(val, st, runs, lookups) ==
    [k |-> "return", val |-> val, err |-> "-", st |-> st, runs |-> runs,
     lookups |-> lookups, pend |-> NoPend]

Raise(err, st, runs, lookups) ==
    [k |-> "raise", val |-> None, err |-> err, st |-> st, runs |-> runs,
     lookups |-> lookups, pend |-> NoPend]

Await(pend, st, runs) ==
    [k |-> "await", val |-> None, err |-> "-", st |-> st, runs |-> runs,
     lookups |-> 0, pend |-> pend]

\* bookkeeping: the body of the function registered as name ran `runs` times
Ran(st, name, id, runs) ==
    [st EXCEPT !.calls[id] = @ + runs, !.hist[name].runs = @ + runs]

\* bookkeeping: a resolve of name handed val to its caller
Gave(st, name, val) ==
    [st EXCEPT !.hist[name].n = @ + 1, !.hist[name].rets = @ \cup {val}]

\* lines 92-96 with the store left out
StoreAndReturn_no_store(name, scope, val, st, runs) ==
    Return(val, Gave(st, name, val), runs, 0)

\* lines 92-96 with the result stored whatever the scope of the function
StoreAndReturn_every_scope(name, scope, val, st, runs) ==
    Return(val, Gave([st EXCEPT !.cache = Put(st.cache, name, val)], name, val), runs, 0)

\* lines 92-96: store the result of a STARTUP function, return it
StoreAndReturn(name, scope, val, st, runs) ==
    LET st1 == IF scope = STARTUP
               THEN [st EXCEPT !.cache = Put(st.cache, name, val)] ELSE st
    IN  Return(val, Gave(st1, name, val), runs, 0)

\* ComputeRegistry.resolve, up to its return, its raise or its first await
registry_resolve(name, st) ==
    IF name \notin DOMAIN functions THEN Raise(COMPUTE_FUNCTION_NOT_FOUND, st, 0, 0)
    ELSE LET reg_fn == functions[name]
         IN  IF reg_fn.scope = STARTUP /\ name \in DOMAIN st.cache
             THEN Return(st.cache[name], Gave(st, name, st.cache[name]), 0, 0)
             ELSE IF reg_fn.fn.async
             THEN Await([NoPend EXCEPT !.name = name, !.fn = reg_fn.fn,
                                       !.scope = reg_fn.scope,
                                       !.n = st.calls[reg_fn.fn.id] + 1,
                                       !.via = "registry"],
                        Ran(st, name, reg_fn.fn.id, 1), 1)
             ELSE LET c == CallSync(reg_fn.fn, st.calls[reg_fn.fn.id])
                      st1 == Ran(st, name, reg_fn.fn.id, c.runs)
                  IN  IF c.ok THEN StoreAndReturn(name, reg_fn.scope, c.val, st1, c.runs)
                      ELSE Raise(COMPUTE_FUNCTION_FAILED, st1, c.runs, 0)

\* ComputeRegistry.resolve from the point where the awaited body ends
registry_resume(pend, st) ==
    IF pend.fn.with = "ok"
    THEN StoreAndReturn(pend.name, pend.scope, Ret(pend.fn.id, pend.n), st, 0)
    ELSE Raise(COMPUTE_FUNCTION_FAILED, st, 0, 0)

-----------------------------------------------------------------------------
(* context_resolver.py                                                     *)

\* the except clause re-raising whether or not there is a default
ComputeExcept_reraise(r, hasDefault, default) == r

\* lines 152-158: the except clause around registry.resolve
ComputeExcept(r, hasDefault, default) ==
    IF r.k = "raise" /\ hasDefault
    THEN Return(_parse_default(default), r.st, r.runs, 0)
    ELSE r

\* _resolve_compute with the scope check inside the try block, so that the
\* inline default also covers a scope violation
_resolve_compute_scope_in_try(m, scope, strategy, st) ==
    IF ~has(m.key)
    THEN IF m.hasDefault THEN Return(_parse_default(m.default), st, 0, 0)
         ELSE IF strategy = "DEFAULT" THEN Return(None, st, 0, 0)
         ELSE IF strategy = "IGNORE" THEN Return(StrV(m.group0), st, 0, 0)
         ELSE Raise(COMPUTE_FUNCTION_NOT_FOUND, st, 0, 0)
    ELSE IF get_scope(m.key) = REQUEST /\ scope = STARTUP
    THEN ComputeExcept(Raise(SCOPE_VIOLATION, st, 0, 0), m.hasDefault, m.default)
    ELSE LET r == registry_resolve(m.key, st)
         IN  IF r.k = "await"
             THEN [r EXCEPT !.pend.via = "compute", !.pend.hasDefault = m.hasDefault,
                            !.pend.default = m.default]
             ELSE ComputeExcept(r, m.hasDefault, m.default)

\* _resolve_compute rejecting every difference between the two scopes
_resolve_compute_scope_differs(m, scope, strategy, st) ==
    IF ~has(m.key)
    THEN IF m.hasDefault THEN Return(_parse_default(m.default), st, 0, 0)
         ELSE IF strategy = "DEFAULT" THEN Return(None, st, 0, 0)
         ELSE IF strategy = "IGNORE" THEN Return(StrV(m.group0), st, 0, 0)
         ELSE Raise(COMPUTE_FUNCTION_NOT_FOUND, st, 0, 0)
    ELSE IF get_scope(m.key) # scope
    THEN Raise(SCOPE_VIOLATION, st, 0, 0)
    ELSE LET r == registry_resolve(m.key, st)
         IN  IF r.k = "await"
             THEN [r EXCEPT !.pend.via = "compute", !.pend.hasDefault = m.hasDefault,
                            !.pend.default = m.default]
             ELSE ComputeExcept(r, m.hasDefault, m.default)

\* _resolve_compute with the DEFAULT and IGNORE strategies exchanged
_resolve_compute_strategies_swapped(m, scope, strategy, st) ==
    IF ~has(m.key)
    THEN IF m.hasDefault THEN Return(_parse_default(m.default), st, 0, 0)
         ELSE IF strategy = "IGNORE" THEN Return(None, st, 0, 0)
         ELSE IF strategy = "DEFAULT" THEN Return(StrV(m.group0), st, 0, 0)
         ELSE Raise(COMPUTE_FUNCTION_NOT_FOUND, st, 0, 0)
    ELSE IF get_scope(m.key) = REQUEST /\ scope = STARTUP
    THEN Raise(SCOPE_VIOLATION, st, 0, 0)
    ELSE LET r == registry_resolve(m.key, st)
         IN  IF r.k = "await"
             THEN [r EXCEPT !.pend.via = "compute", !.pend.hasDefault = m.hasDefault,
                            !.pend.default = m.default]
             ELSE ComputeExcept(r, m.hasDefault, m.default)

_resolve_compute(m, scope, strategy, st) ==
    IF ~has(m.key)
    THEN IF m.hasDefault THEN Return(_parse_default(m.default), st, 0, 0)
         ELSE IF strategy = "DEFAULT" THEN Return(None, st, 0, 0)
         ELSE IF strategy = "IGNORE" THEN Return(StrV(m.group0), st, 0, 0)
         ELSE Raise(COMPUTE_FUNCTION_NOT_FOUND, st, 0, 0)
    ELSE IF get_scope(m.key) = REQUEST /\ scope = STARTUP
    THEN Raise(SCOPE_VIOLATION, st, 0, 0)
    ELSE LET r == registry_resolve(m.key, st)
         IN  IF r.k = "await"
             THEN [r EXCEPT !.pend.via = "compute", !.pend.hasDefault = m.hasDefault,
                            !.pend.default = m.default]
             ELSE ComputeExcept(r, m.hasDefault, m.default)

\* _resolve_template looking the path up first and validating it only when
\* the value is there
_resolve_template_lookup_first(m, context, strategy, st) ==
    LET got == _get_value_by_path(context, m.key)
        val == got.val
    IN  IF val.t = "none" /\ m.hasDefault
        THEN Return(_parse_default(m.default), st, 0, got.lookups)
        ELSE IF validate_path(m.key) # "ok"
        THEN Raise(SECURITY_BLOCKED_PATH, st, 0, got.lookups)
        ELSE IF val.t = "none" THEN Return(StrV(m.group0), st, 0, got.lookups)
        ELSE Return(val, st, 0, got.lookups)

_resolve_template(m, context, strategy, st) ==
    IF validate_path(m.key) # "ok" THEN Raise(SECURITY_BLOCKED_PATH, st, 0, 0)
    ELSE LET got == _get_value_by_path(context, m.key)
             val == got.val
         IN  IF val.t = "none" /\ m.hasDefault
             THEN Return(_parse_default(m.default), st, 0, got.lookups)
             ELSE IF val.t = "none" /\ strategy = "IGNORE"
             THEN Return(StrV(m.group0), st, 0, got.lookups)
             \* under ERROR the code passes and falls through to line 188
             ELSE IF val.t # "none" THEN Return(val, st, 0, got.lookups)
             ELSE IF m.hasDefault THEN Return(_parse_default(m.default), st, 0, got.lookups)
             ELSE Return(StrV(m.group0), st, 0, got.lookups)

\* ContextResolver.resolve with the depth test made before the type test
resolve_depth_first(expression, context, scope, depth, strategy, maxd, st) ==
    IF depth > maxd THEN Raise(RECURSION_LIMIT, st, 0, 0)
    ELSE IF expression.t # "str" THEN Return(expression, st, 0, 0)
    ELSE IF COMPUTE_PATTERN(expression.s).ok
    THEN _resolve_compute(COMPUTE_PATTERN(expression.s), scope, strategy, st)
    ELSE IF TEMPLATE_PATTERN(expression.s).ok
    THEN _resolve_template(TEMPLATE_PATTERN(expression.s), context, strategy, st)
    ELSE Return(expression, st, 0, 0)

\* ContextResolver.resolve
resolve(expression, context, scope, depth, strategy, maxd, st) ==
    IF expression.t # "str" THEN Return(expression, st, 0, 0)
    ELSE IF depth > maxd THEN Raise(RECURSION_LIMIT, st, 0, 0)
    ELSE IF COMPUTE_PATTERN(expression.s).ok
    THEN _resolve_compute(COMPUTE_PATTERN(expression.s), scope, strategy, st)
    ELSE IF TEMPLATE_PATTERN(expression.s).ok
    THEN _resolve_template(TEMPLATE_PATTERN(expression.s), context, strategy, st)
    ELSE Return(expression, st, 0, 0)

\* the test at the top of resolve_object, made for every node it is called on
depth_exceeded_one_late(depth, maxd) == depth > maxd + 1
depth_exceeded(depth, maxd) == depth > maxd

\* The nodes resolve_object visits, in visiting order, with their depth.
RECURSIVE Visits(_, _), VisitsSeq(_, _)
Visits(node, depth) ==
    <<[depth |-> depth, node |-> node]>> \o
    (IF node.t = "dict"
     THEN VisitsSeq([i \in 1..Len(node.kv) |-> node.kv[i].v], depth + 1)
     ELSE IF node.t = "list" THEN VisitsSeq(node.l, depth + 1)
     ELSE <<>>)
VisitsSeq(nodes, depth) ==
    IF nodes = <<>> THEN <<>>
    ELSE Visits(Head(nodes), depth) \o VisitsSeq(Tail(nodes), depth)

\* The containers resolve_object builds around the resolved leaves res.
RECURSIVE Rebuild(_, _), RebuildSeq(_, _)
Rebuild(node, res) ==
    IF node.t = "dict"
    THEN LET r == RebuildSeq([i \in 1..Len(node.kv) |-> node.kv[i].v], res)
         IN  [tree |-> Dict([i \in 1..Len(node.kv) |-> KV(node.kv[i].k, r.trees[i])]),
              rest |-> r.rest]
    ELSE IF node.t = "list"
    THEN LET r == RebuildSeq(node.l, res)
         IN  [tree |-> List(r.trees), rest |-> r.rest]
    ELSE [tree |-> Head(res), rest |-> Tail(res)]
RebuildSeq(nodes, res) ==
    IF nodes = <<>> THEN [trees |-> <<>>, rest |-> res]
    ELSE LET a == Rebuild(Head(nodes), res)
             b == RebuildSeq(Tail(nodes), a.rest)
         IN  [trees |-> <<a.tree>> \o b.trees, rest |-> b.rest]

\* One call of the public API in progress:
\*   w = [op, root, visits, i, results, context, scope, strategy, maxd, runs, lookups]
\* op "registry": ComputeRegistry.resolve(name); "resolve": ContextResolver.resolve;
\* "many": resolve_many; "object": resolve_object.
Walker(op, root, visits, context, scope, strategy, maxd) ==
    [op |-> op, root |-> root, visits |-> visits, i |-> 1, results |-> <<>>,
     context |-> context, scope |-> scope, strategy |-> strategy, maxd |-> maxd,
     runs |-> 0, lookups |-> 0]

\* the value the call returns once every visit is done
Result(w) ==
    IF w.op = "many" THEN List(w.results)
    ELSE IF w.op = "object" THEN Rebuild(w.root, w.results).tree
    ELSE w.results[1]

\* Walk runs the call until it returns, raises or awaits a coroutine;
\* Step takes the outcome r of the visit w.i and goes on.
RECURSIVE Walk(_, _), Step(_, _, _)
Walk(w, st) ==
    IF w.i > Len(w.visits)
    THEN [k |-> "return", val |-> Result(w), err |-> "-", w |-> w, st |-> st, pend |-> NoPend]
    ELSE LET v == w.visits[w.i]
         IN  IF w.op = "registry" THEN Step(w, registry_resolve(v.node.s, st), TRUE)
             ELSE IF w.op = "object" /\ depth_exceeded(v.depth, w.maxd)
             THEN Step(w, Raise(RECURSION_LIMIT, st, 0, 0), TRUE)
             ELSE IF w.op = "object" /\ v.node.t \in {"dict", "list"}
             THEN Step(w, Return(None, st, 0, 0), FALSE)
             ELSE Step(w, resolve(v.node, w.context, w.scope, v.depth,
                                  w.strategy, w.maxd, st), TRUE)
Step(w, r, leaf) ==
    LET w1 == [w EXCEPT !.runs = @ + r.runs, !.lookups = @ + r.lookups]
    IN  IF r.k = "return"
        THEN Walk([w1 EXCEPT !.i = @ + 1,
                             !.results = IF leaf THEN Append(@, r.val) ELSE @], r.st)
        ELSE [k |-> r.k, val |-> None, err |-> r.err, w |-> w1, st |-> r.st, pend |-> r.pend]

\* the awaited body ends: the rest of registry.resolve, of _resolve_compute
\* and of the call
Resumed(w, pend, st) ==
    LET r == registry_resume(pend, st)
    IN  Step(w, IF pend.via = "compute"
                THEN ComputeExcept(r, pend.hasDefault, pend.default) ELSE r, TRUE)

-----------------------------------------------------------------------------
(* Inputs                                                                  *)

MaxTasks == 2       \* worker tasks that may be in flight together

Tasks == 1..MaxTasks

Tmpl(p) == OPEN \o p \o CLOSE
TmplD(p, d) == OPEN \o p \o <<" ", "|", " ", "'">> \o d \o <<"'">> \o CLOSE
Comp(name) == FNPREFIX \o name \o CLOSE
CompD(name, d) == FNPREFIX \o name \o <<" ", "|", " ", "'">> \o d \o <<"'">> \o CLOSE

K_a == <<"a">>
K_b == <<"b">>
K_n == <<"n">>
K_x == <<"x">>
K_y == <<"y">>
K_app == <<"a", "p", "p">>
K_env == <<"e", "n", "v">>
K_config == <<"c", "o", "n", "f", "i", "g">>
K_state == <<"s", "t", "a", "t", "e">>
K_request == <<"r", "e", "q", "u", "e", "s", "t">>

P_ab == <<"a", ".", "b">>
P_m == <<"m">>
P_private == <<"_", "p">>
P_traversal == <<"a", ".", ".", "b">>
P_ctor == <<"a", ".">> \o W_constructor
P_appn == K_app \o <<".">> \o K_n

D_d == <<"d">>
D_42 == <<"4", "2">>
D_true == <<"T", "r", "u", "e">>

Paths == {P_ab, P_m, K_n, P_private, P_traversal, P_ctor, <<>>}
Defaults == {D_d, D_42, D_true}

TemplateExprs ==
    {StrV(Tmpl(p)) : p \in Paths} \cup
    {StrV(TmplD(p, D_42)) : p \in {P_ab, P_m, K_n, P_private}} \cup
    {StrV(TmplD(P_m, D_true)), StrV(TmplD(P_ctor, D_d))}
ComputeExprs ==
    {StrV(Comp(n)) : n \in Names} \cup {StrV(CompD(n, d)) : n \in Names, d \in {D_d, D_42}}
OtherExprs ==
    {StrV(<<"h", "i">>), StrV(OPEN \o <<"a", "-", "b">> \o CLOSE),
     StrV(OPEN \o <<" ", "a", " ">> \o CLOSE), IntV(5), None}
Exprs == TemplateExprs \cup ComputeExprs \cup OtherExprs

C_empty == Dict(<<>>)
C_a == Dict(<<KV(K_a, Dict(<<KV(K_b, StrV(K_x))>>)), KV(K_n, None)>>)
Contexts == {C_empty, C_a}

T_flat == Dict(<<KV(K_x, StrV(Comp(N_f))), KV(K_n, IntV(5))>>)
T_deep == Dict(<<KV(K_x, Dict(<<KV(K_y, List(<<StrV(Tmpl(P_ab)), StrV(CompD(N_g, D_d))>>))>>))>>)
T_list == List(<<StrV(Comp(N_f)), StrV(Comp(N_g))>>)
T_str == StrV(Comp(N_g))
Trees == {T_flat, T_deep, T_list, T_str}
\* a string leaf, then a branch that goes three levels down
T_late == Dict(<<KV(K_x, StrV(Comp(N_f))),
                 KV(K_y, Dict(<<KV(K_n, List(<<IntV(5)>>))>>))>>)

ManyInputs == {<<>>, <<StrV(Comp(N_f)), StrV(TmplD(P_m, D_42)), StrV(Comp(N_f))>>}

Cfg_f == Dict(<<KV(K_x, StrV(CompD(N_f, D_d)))>>)
Cfg_g == Dict(<<KV(K_app, Dict(<<KV(K_n, StrV(K_x))>>)),
                KV(K_y, StrV(Tmpl(P_appn))), KV(K_x, StrV(Comp(N_g)))>>)
Configs == {Cfg_f, Cfg_g}

\* dict(os.environ) and request.state.__dict__, as the host supplies them
Env == Dict(<<KV(K_x, StrV(K_y))>>)
RequestStates == {Dict(<<>>), Dict(<<KV(K_n, IntV(1))>>)}
RequestObject == Val("request", <<>>, 0)

-----------------------------------------------------------------------------
(* State                                                                   *)

Idle == [pc |-> "idle"]
\* runs: runs of the body through this name; n, rets: how many resolves handed
\* a function result to their caller, and which; uncached: the name had no
\* cache entry when the bookkeeping started; seq: no two coroutines were in
\* flight together since; quiet: none was in flight when it started
FreshHist(uncached, seq) ==
    [runs |-> 0, n |-> 0, rets |-> {}, uncached |-> uncached, seq |-> seq,
     quiet |-> seq]
NoApp == [configured |-> FALSE, raw_config |-> None, config |-> None]

Called(api, arg, context, scope, depth, k, val, err, runs, lookups, cacheSame) ==
    [api |-> api, arg |-> arg, context |-> context, scope |-> scope, depth |-> depth,
     k |-> k, val |-> val, err |-> err, runs |-> runs, lookups |-> lookups,
     cacheSame |-> cacheSame]

NoCall == Called("-", None, None, "-", 0, "-", None, "-", 0, 0, TRUE)

InitEngine ==
    /\ functions = Empty
    /\ cache = Empty
    /\ missing_strategy \in MissingStrategy
    /\ calls = [id \in FnIds |-> 0]
    /\ tasks = [t \in Tasks |-> Idle]
    /\ last = NoCall
    /\ hist = [n \in Names |-> FreshHist(TRUE, TRUE)]
    /\ nRegs = 0
    /\ nCalls = 0
    /\ app = NoApp
    /\ rtr_functions = Empty

\* nothing handed to validate_path or to _parse_default
NoPath == path = <<>> /\ verdict = "-"
NoRaw == raw = <<>> /\ parsed = [done |-> FALSE, val |-> None]

Init == InitEngine /\ NoPath /\ NoRaw

Busy == {t \in Tasks : tasks[t].pc # "idle"}

\* bookkeeping restarts for the names whose registration or cache entry changed
Restart(h, names, newCache) ==
    [n \in Names |-> IF n \in names
                     THEN FreshHist(n \notin DOMAIN newCache, Busy = {})
                     ELSE h[n]]

\* a call that starts while another one is suspended is not sequential
Overlap(h) == IF Busy = {} THEN h ELSE [n \in Names |-> [h[n] EXCEPT !.seq = FALSE]]

-----------------------------------------------------------------------------
(* Actions: compute_registry.py                                            *)

Quiet == UNCHANGED <<path, verdict, raw, parsed, rtr_functions>>

Register(name, fn, scope) ==
    /\ nRegs' = nRegs + 1
    /\ IF _validate_name(name) # "ok"
       THEN /\ last' = Called("register", StrV(name), None, scope, 0, "raise", None,
                              "ValueError", 0, 0, TRUE)
            /\ UNCHANGED <<functions, hist>>
       ELSE /\ functions' = Put(functions, name, [fn |-> fn, scope |-> scope])
            /\ hist' = Restart(hist, {name}, cache)
            /\ last' = Called("register", StrV(name), None, scope, 0, "return", None,
                              "-", 0, 0, TRUE)
    /\ UNCHANGED <<cache, missing_strategy, calls, tasks, app, nCalls>>
    /\ Quiet

Unregister(name) ==
    /\ nRegs' = nRegs + 1
    /\ IF name \in DOMAIN functions
       THEN functions' = Del(functions, name) /\ hist' = Restart(hist, {name}, cache)
       ELSE UNCHANGED <<functions, hist>>
    /\ last' = Called("unregister", StrV(name), None, "-", 0, "return", None, "-", 0, 0, TRUE)
    /\ UNCHANGED <<cache, missing_strategy, calls, tasks, app, nCalls>>
    /\ Quiet

Clear ==
    /\ nRegs' = nRegs + 1
    /\ functions' = Empty
    /\ cache' = Empty
    /\ hist' = Restart(hist, Names, Empty)
    /\ last' = Called("clear", None, None, "-", 0, "return", None, "-", 0, 0, cache = Empty)
    /\ UNCHANGED <<missing_strategy, calls, tasks, app, nCalls>>
    /\ Quiet

ClearCache ==
    /\ nRegs' = nRegs + 1
    /\ cache' = Empty
    /\ hist' = Restart(hist, Names, Empty)
    /\ last' = Called("clear_cache", None, None, "-", 0, "return", None, "-", 0, 0,
                      cache = Empty)
    /\ UNCHANGED <<functions, missing_strategy, calls, tasks, app, nCalls>>
    /\ Quiet

-----------------------------------------------------------------------------
(* Actions: the calls that resolve                                         *)

\* x is what Walk or Resumed produced for the call of task t
Settle_store_before_resolving(t, api, arg, depth, x, cache0) ==
    /\ cache' = x.st.cache
    /\ calls' = x.st.calls
    /\ hist' = x.st.hist
    /\ IF x.k = "await"
       THEN /\ tasks' = [tasks EXCEPT ![t] = [pc |-> "await", api |-> api, arg |-> arg,
                                              depth |-> depth, w |-> x.w,
                                              pend |-> x.pend, cache0 |-> cache0]]
            /\ UNCHANGED <<last, app>>
       ELSE /\ tasks' = [tasks EXCEPT ![t] = Idle]
            /\ last' = Called(api, arg, x.w.context, x.w.scope, depth, x.k, x.val, x.err,
                              x.w.runs, x.w.lookups, x.st.cache = cache0)
            /\ app' = IF api = "resolve_startup"
                      THEN [configured |-> TRUE, raw_config |-> arg, config |-> x.val]
                      ELSE app
    /\ UNCHANGED <<functions, missing_strategy, nRegs>>
    /\ Quiet

\* the resolved values written into the tree that was handed in, which
\* resolve_startup then stores as the raw config
Settle_in_place(t, api, arg, depth, x, cache0) ==
    /\ cache' = x.st.cache
    /\ calls' = x.st.calls
    /\ hist' = x.st.hist
    /\ IF x.k = "await"
       THEN /\ tasks' = [tasks EXCEPT ![t] = [pc |-> "await", api |-> api, arg |-> arg,
                                              depth |-> depth, w |-> x.w,
                                              pend |-> x.pend, cache0 |-> cache0]]
            /\ UNCHANGED <<last, app>>
       ELSE /\ tasks' = [tasks EXCEPT ![t] = Idle]
            /\ last' = Called(api, arg, x.w.context, x.w.scope, depth, x.k, x.val, x.err,
                              x.w.runs, x.w.lookups, x.st.cache = cache0)
            /\ app' = IF api = "resolve_startup" /\ x.k = "return"
                      THEN [configured |-> TRUE, raw_config |-> x.val, config |-> x.val]
                      ELSE IF api = "get_request_config" /\ x.k = "return"
                      THEN [app EXCEPT !.raw_config = x.val]
                      ELSE app
    /\ UNCHANGED <<functions, missing_strategy, nRegs>>
    /\ Quiet

Settle(t, api, arg, depth, x, cache0) ==
    /\ cache' = x.st.cache
    /\ calls' = x.st.calls
    /\ hist' = x.st.hist
    /\ IF x.k = "await"
       THEN /\ tasks' = [tasks EXCEPT ![t] = [pc |-> "await", api |-> api, arg |-> arg,
                                              depth |-> depth, w |-> x.w,
                                              pend |-> x.pend, cache0 |-> cache0]]
            /\ UNCHANGED <<last, app>>
       ELSE /\ tasks' = [tasks EXCEPT ![t] = Idle]
            /\ last' = Called(api, arg, x.w.context, x.w.scope, depth, x.k, x.val, x.err,
                              x.w.runs, x.w.lookups, x.st.cache = cache0)
            \* fastapi.py lines 100-108, reached only when resolve_object returned
            /\ app' = IF api = "resolve_startup" /\ x.k = "return"
                      THEN [configured |-> TRUE, raw_config |-> arg, config |-> x.val]
                      ELSE app
    /\ UNCHANGED <<functions, missing_strategy, nRegs>>
    /\ Quiet

\* the coroutine runs in the first free worker task
Free(t) == tasks[t].pc = "idle" /\ \A u \in Tasks : u < t => tasks[u].pc # "idle"

Begin(t, api, arg, depth, w) ==
    /\ Free(t)
    /\ nCalls' = nCalls + 1
    /\ Settle(t, api, arg, depth,
              Walk(w, [cache |-> cache, calls |-> calls, hist |-> Overlap(hist)]), cache)

\* await registry.resolve(name)
RegistryResolve(t, name) ==
    Begin(t, "registry.resolve", StrV(name), 0,
          Walker("registry", StrV(name), <<[depth |-> 0, node |-> StrV(name)]>>,
                 None, "-", "-", 0))

\* await resolver.resolve(expression, context, scope, depth)
Resolve(t, expression, context, scope, depth) ==
    Begin(t, "resolve", expression, depth,
          Walker("resolve", expression, <<[depth |-> depth, node |-> expression]>>,
                 context, scope, missing_strategy, max_depth))

\* resolve_many walking its input from the last element to the first
ResolveMany_backwards(t, expressions, context, scope) ==
    Begin(t, "resolve_many", List(expressions), 0,
          Walker("many", List(expressions),
                 [i \in 1..Len(expressions) |->
                      [depth |-> 0, node |-> expressions[Len(expressions) + 1 - i]]],
                 context, scope, missing_strategy, max_depth))

\* await resolver.resolve_many(expressions, context, scope)
ResolveMany(t, expressions, context, scope) ==
    Begin(t, "resolve_many", List(expressions), 0,
          Walker("many", List(expressions),
                 [i \in 1..Len(expressions) |-> [depth |-> 0, node |-> expressions[i]]],
                 context, scope, missing_strategy, max_depth))

\* await resolver.resolve_object(obj, context, scope)
ResolveObject(t, obj, context, scope) ==
    Begin(t, "resolve_object", obj, 0,
          Walker("object", obj, Visits(obj, 0), context, scope,
                 missing_strategy, max_depth))

-----------------------------------------------------------------------------
(* Actions: integrations/fastapi.py                                        *)

\* app_config_dict.get("app", {}) where app_config_dict is the raw config
AppOf(config) ==
    IF config.t = "dict" /\ DictGet(config, K_app).t # "none"
    THEN DictGet(config, K_app) ELSE Dict(<<>>)

startup_context(config) ==
    Dict(<<KV(K_env, Env), KV(K_config, config), KV(K_app, AppOf(config))>>)

req_context(raw_config, state) ==
    Dict(<<KV(K_env, Env), KV(K_config, raw_config), KV(K_app, AppOf(raw_config)),
           KV(K_state, state), KV(K_request, RequestObject)>>)

\* await resolve_startup(app, config, registry)
ResolveStartup(t, config) ==
    Begin(t, "resolve_startup", config, 0,
          Walker("object", config, Visits(config, 0), startup_context(config),
                 STARTUP, "ERROR", DEFAULT_MAX_DEPTH))

\* await get_request_config(request)
GetRequestConfig(t, state) ==
    IF ~app.configured
    THEN /\ Free(t)
         /\ nCalls' = nCalls + 1
         /\ last' = Called("get_request_config", None, None, REQUEST, 0, "raise", None,
                           "RuntimeError", 0, 0, TRUE)
         /\ UNCHANGED <<functions, cache, missing_strategy, calls, tasks, hist, app, nRegs>>
         /\ Quiet
    ELSE Begin(t, "get_request_config", app.raw_config, 0,
               Walker("object", app.raw_config, Visits(app.raw_config, 0),
                      req_context(app.raw_config, state), REQUEST, "ERROR",
                      DEFAULT_MAX_DEPTH))

\* the coroutine function awaited by task t finishes
Resume(t) ==
    /\ tasks[t].pc = "await"
    /\ Settle(t, tasks[t].api, tasks[t].arg, tasks[t].depth,
              Resumed(tasks[t].w, tasks[t].pend,
                      [cache |-> cache, calls |-> calls, hist |-> hist]),
              tasks[t].cache0)
    /\ UNCHANGED nCalls

-----------------------------------------------------------------------------
(* Spec: one function name, its registration, the cache and the calls that *)
(* reach ComputeRegistry.resolve, with coroutines in flight together.      *)

MaxRegs == 2        \* registry changes per behaviour
MaxCalls == 2       \* resolving calls per behaviour

CacheFns == {F_ctx, F_async, F_flaky}

Next ==
    \/ \E fn \in CacheFns, scope \in ComputeScope :
           nRegs < MaxRegs /\ Register(N_f, fn, scope)
    \/ nRegs < MaxRegs /\ ClearCache
    \/ \E t \in Tasks : nCalls < MaxCalls /\ RegistryResolve(t, N_f)
    \/ \E t \in Tasks, scope \in ComputeScope :
           nCalls < MaxCalls /\ Resolve(t, StrV(Comp(N_f)), C_empty, scope, 0)
    \/ \E t \in Tasks : nCalls < MaxCalls /\ ResolveStartup(t, Cfg_f)
    \/ \E t \in Tasks : nCalls < MaxCalls /\ GetRequestConfig(t, Dict(<<>>))
    \/ \E t \in Tasks : Resume(t)

Spec == Init /\ [][Next]_vars

-----------------------------------------------------------------------------
(* SpecResolve: ContextResolver.resolve and resolve_object over the        *)
(* expressions, contexts, scopes and strategies.                           *)

ResolveMaxRegs == 2
ResolveMaxCalls == 2

Registrations ==
    {<<N_f, F_ctx, STARTUP>>, <<N_f, F_fail, STARTUP>>,
     <<N_g, F_ctx, REQUEST>>, <<N_g, F_fail, REQUEST>>}

Request(e, c, scope, depth) == [e |-> e, c |-> c, scope |-> scope, depth |-> depth]

Requests ==
    {Request(e, C_empty, scope, 0) : e \in ComputeExprs, scope \in ComputeScope} \cup
    {Request(e, C_a, REQUEST, 0) : e \in TemplateExprs \cup OtherExprs} \cup
    {Request(e, C_empty, REQUEST, 0) :
         e \in {StrV(Tmpl(P_ab)), StrV(TmplD(P_ab, D_42)), StrV(TmplD(P_private, D_42))}} \cup
    {Request(e, C_a, STARTUP, max_depth + 1) :
         e \in {StrV(Comp(N_g)), StrV(Tmpl(P_private)), IntV(5)}}

NextResolve ==
    \/ \E r \in Registrations :
           nRegs < ResolveMaxRegs /\ Register(r[1], r[2], r[3])
    \/ \E t \in Tasks, q \in Requests :
           nCalls < ResolveMaxCalls /\ Resolve(t, q.e, q.c, q.scope, q.depth)
    \/ \E t \in Tasks, obj \in {T_str, T_list}, scope \in ComputeScope :
           nCalls < ResolveMaxCalls /\ ResolveObject(t, obj, C_a, scope)

SpecResolve == Init /\ [][NextResolve]_vars

-----------------------------------------------------------------------------
(* SpecSecurity: Security.validate_path over bounded paths                 *)

MaxPieces == 3

PathPieces ==
    {<<"a">>, <<"Z">>, <<"1">>, <<"_">>, <<".">>, <<"[", "0", "]">>, <<"-">>, <<NL>>,
     W_constructor, W_prototype, W_proto, W_class, W_dict}

RECURSIVE Concat(_)
Concat(ps) == IF ps = <<>> THEN <<>> ELSE Head(ps) \o Concat(Tail(ps))

PathInputs ==
    {Concat(ps) : ps \in UNION {[1..n -> PathPieces] : n \in 0..MaxPieces}}

InitSecurity == InitEngine /\ path \in PathInputs /\ verdict = "-" /\ NoRaw

ValidatePath ==
    /\ verdict = "-"
    /\ verdict' = validate_path(path)
    /\ UNCHANGED <<functions, cache, missing_strategy, calls, tasks, last, hist, nRegs,
                   nCalls, app, path, raw, parsed, rtr_functions>>

NextSecurity == ValidatePath

SpecSecurity == InitSecurity /\ [][NextSecurity]_vars

-----------------------------------------------------------------------------
(* SpecTree: ContextResolver.resolve_object over trees of several depths,  *)
(* and ContextResolver.resolve called at several depths                    *)

\* a scalar inside k lists: its leaf lies at depth k
RECURSIVE Nest(_)
Nest(k) == IF k = 0 THEN IntV(5) ELSE List(<<Nest(k - 1)>>)

TreeInputs == Trees \cup {T_late, Nest(0), Nest(max_depth), Nest(max_depth + 1)}

DepthRequests ==
    {Request(e, C_a, REQUEST, d) :
         e \in {StrV(<<"h", "i">>), StrV(<<>>), StrV(OPEN \o <<"a">>), StrV(Tmpl(P_ab)),
                StrV(Comp(N_g)), IntV(5), BoolV(TRUE), None, List(<<StrV(Comp(N_g))>>)},
         d \in 0..(max_depth + 1)}

NextTree ==
    \/ \E r \in Registrations :
           nRegs < ResolveMaxRegs /\ Register(r[1], r[2], r[3])
    \/ \E t \in Tasks, obj \in TreeInputs, scope \in ComputeScope :
           nCalls < ResolveMaxCalls /\ ResolveObject(t, obj, C_a, scope)
    \/ \E t \in Tasks, q \in DepthRequests :
           nCalls < ResolveMaxCalls /\ Resolve(t, q.e, q.c, q.scope, q.depth)

SpecTree == Init /\ [][NextTree]_vars

-----------------------------------------------------------------------------
(* polyglot/runtime_template_resolver: compute_registry.py.  This registry  *)
(* keeps one table, _functions, of (fn, scope) by name.                     *)

\* ComputeRegistry.register without the test for a registered name
rtr_register_overwriting(name, fn, scope) ==
    IF name = <<>> \/ ~NAME_PATTERN(name)
    THEN [err |-> "Invalid function name", functions |-> rtr_functions]
    ELSE [err |-> "-", functions |-> Put(rtr_functions, name, [fn |-> fn, scope |-> scope])]

\* ComputeRegistry.register without the test of the name
rtr_register_unvalidated(name, fn, scope) ==
    IF name \in DOMAIN rtr_functions
    THEN [err |-> "Function already registered", functions |-> rtr_functions]
    ELSE [err |-> "-", functions |-> Put(rtr_functions, name, [fn |-> fn, scope |-> scope])]

\* ComputeRegistry.register: the ValueError it raises ("-" when none) and the
\* table it leaves
rtr_register(name, fn, scope) ==
    IF name = <<>> \/ ~NAME_PATTERN(name)
    THEN [err |-> "Invalid function name", functions |-> rtr_functions]
    ELSE IF name \in DOMAIN rtr_functions
    THEN [err |-> "Function already registered", functions |-> rtr_functions]
    ELSE [err |-> "-", functions |-> Put(rtr_functions, name, [fn |-> fn, scope |-> scope])]

RtrQuiet ==
    UNCHANGED <<functions, cache, missing_strategy, tasks, hist, nCalls, app, path,
                verdict, raw, parsed>>

RtrRegister(name, fn, scope) ==
    /\ nRegs' = nRegs + 1
    /\ rtr_functions' = rtr_register(name, fn, scope).functions
    /\ last' = Called("rtr.register", StrV(name), None, scope, 0,
                      IF rtr_register(name, fn, scope).err = "-" THEN "return" ELSE "raise",
                      None, rtr_register(name, fn, scope).err, 0, 0, TRUE)
    /\ UNCHANGED calls
    /\ RtrQuiet

\* ComputeRegistry.unregister: True when the name was registered
RtrUnregister(name) ==
    /\ nRegs' = nRegs + 1
    /\ rtr_functions' = IF name \in DOMAIN rtr_functions
                        THEN Del(rtr_functions, name) ELSE rtr_functions
    /\ last' = Called("rtr.unregister", StrV(name), None, "-", 0, "return",
                      BoolV(name \in DOMAIN rtr_functions), "-", 0, 0, TRUE)
    /\ UNCHANGED calls
    /\ RtrQuiet

RtrClear ==
    /\ nRegs' = nRegs + 1
    /\ rtr_functions' = Empty
    /\ last' = Called("rtr.clear", None, None, "-", 0, "return", None, "-", 0, 0, TRUE)
    /\ UNCHANGED calls
    /\ RtrQuiet

\* ComputeRegistry.resolve(name, context) with a context given
RtrResolve(name) ==
    /\ nRegs' = nRegs + 1
    /\ IF name \notin DOMAIN rtr_functions
       THEN /\ last' = Called("rtr.resolve", StrV(name), None, "-", 0, "raise", None,
                              "ComputeFunctionError", 0, 0, TRUE)
            /\ UNCHANGED calls
       ELSE LET f == rtr_functions[name].fn
                r == CallSync(f, calls[f.id])
            IN  /\ calls' = [calls EXCEPT ![f.id] = @ + r.runs]
                /\ last' = Called("rtr.resolve", StrV(name), None, rtr_functions[name].scope,
                                  0, IF r.ok THEN "return" ELSE "raise", r.val,
                                  IF r.ok THEN "-" ELSE "ComputeFunctionError",
                                  r.runs, 0, TRUE)
    /\ UNCHANGED rtr_functions
    /\ RtrQuiet

\* SpecRtr: registrations, removals and resolves on that registry
RtrMaxOps == 3

NextRtr ==
    \/ \E name \in Names \cup BadNames, fn \in {F_ctx, F_noarg}, scope \in ComputeScope :
           nRegs < RtrMaxOps /\ RtrRegister(name, fn, scope)
    \/ \E name \in Names : nRegs < RtrMaxOps /\ RtrUnregister(name)
    \/ nRegs < RtrMaxOps /\ RtrClear
    \/ \E name \in Names : nRegs < RtrMaxOps /\ RtrResolve(name)

SpecRtr == Init /\ [][NextRtr]_vars

-----------------------------------------------------------------------------
(* SpecNames: both registries offered good names, bad names and a name     *)
(* that ends in a newline                                                  *)

OfferedNames == Names \cup BadNames \cup {<<"f", NL>>, <<"a", "-", "b">>, <<"_", "x", "1">>}

NextNames ==
    \/ \E name \in OfferedNames, scope \in ComputeScope :
           nRegs < RtrMaxOps /\ Register(name, F_ctx, scope)
    \/ \E name \in OfferedNames, scope \in ComputeScope :
           nRegs < RtrMaxOps /\ RtrRegister(name, F_ctx, scope)
    \/ \E t \in Tasks : nCalls < MaxCalls /\ RegistryResolve(t, N_f)

SpecNames == Init /\ [][NextNames]_vars

-----------------------------------------------------------------------------
(* SpecMany: ContextResolver.resolve_many over lists of expressions, next  *)
(* to single resolves                                                      *)

ManyLists ==
    ManyInputs \cup
    {<<StrV(Comp(N_g)), IntV(5), StrV(Comp(N_f))>>,
     <<StrV(Tmpl(P_ab)), StrV(Comp(N_g))>>,
     <<StrV(<<"h", "i">>)>>}

NextMany ==
    \/ \E r \in Registrations :
           nRegs < ResolveMaxRegs /\ Register(r[1], r[2], r[3])
    \/ \E t \in Tasks, exprs \in ManyLists, c \in Contexts, scope \in ComputeScope :
           nCalls < ResolveMaxCalls /\ ResolveMany(t, exprs, c, scope)
    \/ \E t \in Tasks, e \in {StrV(Comp(N_f)), StrV(Comp(N_g))} :
           nCalls < ResolveMaxCalls /\ Resolve(t, e, C_a, REQUEST, 0)

SpecMany == Init /\ [][NextMany]_vars

-----------------------------------------------------------------------------
(* SpecReadOnly: a raw configuration resolved at startup and again for     *)
(* requests, next to resolve_object on trees                               *)

ReadOnlyRegistrations == Registrations \cup {<<N_g, F_ctx, STARTUP>>}

NextReadOnly ==
    \/ \E r \in ReadOnlyRegistrations :
           nRegs < ResolveMaxRegs /\ Register(r[1], r[2], r[3])
    \/ \E t \in Tasks, config \in Configs :
           nCalls < ResolveMaxCalls + 1 /\ ResolveStartup(t, config)
    \/ \E t \in Tasks, state \in RequestStates :
           nCalls < ResolveMaxCalls + 1 /\ GetRequestConfig(t, state)
    \/ \E t \in Tasks, obj \in {T_flat, T_list, Nest(max_depth)}, scope \in ComputeScope :
           nCalls < ResolveMaxCalls + 1 /\ ResolveObject(t, obj, C_a, scope)

SpecReadOnly == Init /\ [][NextReadOnly]_vars

-----------------------------------------------------------------------------
(* SpecWhitespace: ContextResolver.resolve on placeholders written with    *)
(* and without blanks around their tokens                                  *)

\* {{ p }}, {{ fn:name }} and {{p | 'd' }}
SpacedTmpl(p) == OPEN \o <<" ">> \o p \o <<" ">> \o CLOSE
SpacedComp(name) == OPEN \o <<" ", "f", "n", ":">> \o name \o <<" ">> \o CLOSE
SpacedTmplD(p, d) ==
    OPEN \o p \o <<" ", "|", " ", "'">> \o d \o <<"'", " ">> \o CLOSE
\* {{p|'d'}}
TightTmplD(p, d) == OPEN \o p \o <<"|", "'">> \o d \o <<"'">> \o CLOSE

\* pairs of a placeholder and the same placeholder with other blanks
WhitespacePairs ==
    {<<Tmpl(p), SpacedTmpl(p)>> : p \in {P_ab, P_m}} \cup
    {<<Comp(n), SpacedComp(n)>> : n \in Names} \cup
    {<<TmplD(p, d), SpacedTmplD(p, d)>> : p \in {P_ab, P_m}, d \in {D_d, D_42}}
PipePairs == {<<TmplD(p, d), TightTmplD(p, d)>> : p \in {P_ab, P_m}, d \in {D_d, D_42}}

NextWhitespace ==
    \/ \E r \in Registrations :
           nRegs < ResolveMaxRegs /\ Register(r[1], r[2], r[3])
    \/ \E t \in Tasks, pair \in WhitespacePairs \cup PipePairs, i \in {1, 2} :
           nCalls < ResolveMaxCalls /\ Resolve(t, StrV(pair[i]), C_a, REQUEST, 0)

SpecWhitespace == Init /\ [][NextWhitespace]_vars

-----------------------------------------------------------------------------
(* SpecDefault: ContextResolver._parse_default over bounded default        *)
(* literals (the text between the quotes of an expression's default)       *)

MaxDefaultPieces == 2

DefaultPieces ==
    {<<"t", "r", "u", "e">>, <<"F", "a", "l", "s", "e">>, <<"4">>, <<"2">>, <<".">>,
     <<"-">>, <<"e">>, <<"x">>, <<" ">>, <<"n", "a", "n">>}

DefaultInputs ==
    {Concat(ps) : ps \in UNION {[1..n -> DefaultPieces] : n \in 0..MaxDefaultPieces}}

InitDefault ==
    InitEngine /\ NoPath /\ raw \in DefaultInputs /\ parsed = [done |-> FALSE, val |-> None]

ParseDefault ==
    /\ ~parsed.done
    /\ parsed' = [done |-> TRUE, val |-> _parse_default(raw)]
    /\ UNCHANGED <<functions, cache, missing_strategy, calls, tasks, last, hist, nRegs,
                   nCalls, app, path, verdict, raw, rtr_functions>>

NextDefault == ParseDefault

SpecDefault == InitDefault /\ [][NextDefault]_vars

-----------------------------------------------------------------------------
(* SpecRegistry: the whole ComputeRegistry (register with good and bad     *)
(* names, unregister, clear, clear_cache, resolve) over functions that     *)
(* return, fail, or raise TypeError.                                       *)

RegistryRegistrations ==
    {<<N_f, fn, scope>> : fn \in {F_ctx, F_fail, F_afail, F_flaky}, scope \in ComputeScope}
    \cup {<<N_g, F_ctx, STARTUP>>}
    \cup {<<name, F_ctx, STARTUP>> : name \in BadNames}

NextRegistry ==
    \/ \E r \in RegistryRegistrations : nRegs < MaxRegs /\ Register(r[1], r[2], r[3])
    \/ nRegs < MaxRegs /\ Unregister(N_f)
    \/ nRegs < MaxRegs /\ Clear
    \/ nRegs < MaxRegs /\ ClearCache
    \/ \E t \in Tasks, name \in Names : nCalls < MaxCalls /\ RegistryResolve(t, name)
    \/ \E t \in Tasks : Resume(t)

SpecRegistry == Init /\ [][NextRegistry]_vars

-----------------------------------------------------------------------------
(* polyglot/runtime_template_resolver: resolver.py with validator.py,      *)
(* path_parser.py, missing_handler.py and coercion.py                      *)

rtr_MissingStrategy == {"KEEP", "EMPTY", "ERROR", "DEFAULT"}

WordChar == Letter \cup Digit \cup {"_"}
PlaceholderChar == WordChar \cup {"-", ".", "[", "]", "\"", "'"}

\* str.strip()
RECURSIVE rstrip(_)
rstrip(s) == IF s # <<>> /\ s[Len(s)] \in Space THEN rstrip(Take(s, Len(s) - 1)) ELSE s

strip(s) == rstrip(Drop(s, SpanLen(s, Space)))

\* validate_placeholder: "ok", or the error it raises
validate_placeholder(placeholder) ==
    IF placeholder = <<>> \/ strip(placeholder) = <<>> THEN "ValidationError"
    ELSE IF ~\E core \in BeforeDollar(placeholder) :
                 core # <<>> /\ AllIn(core, PlaceholderChar)
    THEN "ValidationError"
    ELSE IF Contains(placeholder, <<".", ".">>) THEN "ValidationError"
    ELSE "ok"

\* the loop of parse_path; in_quote is "" outside quotes
RECURSIVE ParseFrom(_, _, _, _, _)
ParseFrom(p, segments, current, in_bracket, in_quote) ==
    LET flushed == IF current # <<>> THEN Append(segments, current) ELSE segments
    IN  IF p = <<>> THEN flushed
        ELSE LET char == Head(p)
             IN  IF in_quote # ""
                 THEN IF char = in_quote
                      THEN ParseFrom(Tail(p), segments, current, in_bracket, "")
                      ELSE ParseFrom(Tail(p), segments, Append(current, char),
                                     in_bracket, in_quote)
                 ELSE IF char \in Quote
                 THEN ParseFrom(Tail(p), segments, current, in_bracket, char)
                 ELSE IF char = "["
                 THEN ParseFrom(Tail(p), flushed, <<>>, TRUE, "")
                 ELSE IF char = "]"
                 THEN ParseFrom(Tail(p), flushed, <<>>, FALSE, "")
                 ELSE IF char = "." /\ ~in_bracket
                 THEN ParseFrom(Tail(p), flushed, <<>>, in_bracket, "")
                 ELSE ParseFrom(Tail(p), segments, Append(current, char),
                                in_bracket, "")

parse_path(p) == ParseFrom(p, <<>>, <<>>, FALSE, "")

W_real == <<"r", "e", "a", "l">>
W_imag == <<"i", "m", "a", "g">>

\* hasattr/getattr on a value that is neither dict nor list: of the names the
\* model uses, int and bool have real and imag, nothing else has any
HasAttr(current, segment) == current.t \in {"int", "bool"} /\ segment \in {W_real, W_imag}
GetAttr(current, segment) == IF segment = W_real THEN IntV(current.n) ELSE IntV(0)

\* the loop over the segments as written: the test of the segment comes
\* before the test of current, and a missing attribute leaves the loop
RECURSIVE Traverse(_, _)
Traverse(current, segments) ==
    IF segments = <<>> THEN [err |-> "-", val |-> current]
    ELSE LET segment == Head(segments)
         IN  IF segment[1] = "_" THEN [err |-> "SecurityError", val |-> None]
             ELSE IF current = None THEN [err |-> "-", val |-> None]
             ELSE IF current.t = "list"
             THEN IF isdigit(segment) /\ IntOf(segment) < Len(current.l)
                  THEN Traverse(current.l[IntOf(segment) + 1], Tail(segments))
                  ELSE Traverse(None, Tail(segments))
             ELSE IF current.t = "dict"
             THEN Traverse(DictGet(current, segment), Tail(segments))
             ELSE IF HasAttr(current, segment)
             THEN Traverse(GetAttr(current, segment), Tail(segments))
             ELSE [err |-> "-", val |-> None]

DigitSeq == <<"0", "1", "2", "3", "4", "5", "6", "7", "8", "9">>

\* str(n) of an int
RECURSIVE DigitsOf(_)
DigitsOf(n) ==
    IF n < 0 THEN <<"-">> \o DigitsOf(0 - n)
    ELSE IF n < 10 THEN <<DigitSeq[n + 1]>>
    ELSE DigitsOf(n \div 10) \o <<DigitSeq[(n % 10) + 1]>>

\* json.dumps of a string: quoted, with the quote and the newline escaped
RECURSIVE JsonEscape(_)
JsonEscape(s) ==
    IF s = <<>> THEN <<>>
    ELSE (IF Head(s) = "\"" THEN <<"\\", "\"">>
          ELSE IF Head(s) = NL THEN <<"\\", "n">>
          ELSE <<Head(s)>>) \o JsonEscape(Tail(s))

\* json.dumps with its default separators
RECURSIVE dumps(_)
RECURSIVE DumpItems(_, _)
dumps(value) ==
    IF value = None THEN <<"n", "u", "l", "l">>
    ELSE IF value.t = "dict" THEN <<"{">> \o DumpItems(value.kv, TRUE) \o <<"}">>
    ELSE IF value.t = "list" THEN <<"[">> \o DumpItems(value.l, FALSE) \o <<"]">>
    ELSE IF value.t = "bool"
    THEN (IF value.n = 1 THEN <<"t", "r", "u", "e">> ELSE <<"f", "a", "l", "s", "e">>)
    ELSE IF value.t = "int" THEN DigitsOf(value.n)
    ELSE <<"\"">> \o JsonEscape(value.s) \o <<"\"">>

DumpItems(items, keyed) ==
    IF items = <<>> THEN <<>>
    ELSE LET item == Head(items)
             one == IF keyed
                    THEN <<"\"">> \o JsonEscape(item.k) \o <<"\"", ":", " ">> \o dumps(item.v)
                    ELSE dumps(item)
         IN  IF Tail(items) = <<>> THEN one
             ELSE one \o <<",", " ">> \o DumpItems(Tail(items), keyed)

\* to_string of coercion.py
to_string(value) ==
    IF value = None THEN <<>>
    ELSE IF value.t \in {"dict", "list"} THEN dumps(value)
    ELSE IF value.t = "bool"
    THEN (IF value.n = 1 THEN <<"T", "r", "u", "e">> ELSE <<"F", "a", "l", "s", "e">>)
    ELSE IF value.t = "int" THEN DigitsOf(value.n)
    ELSE value.s

\* handle_missing for a placeholder without default
handle_missing(key, strategy) ==
    IF strategy = "KEEP" THEN [err |-> "-", out |-> OPEN \o key \o CLOSE]
    ELSE IF strategy = "ERROR" THEN [err |-> "MissingValueError", out |-> <<>>]
    ELSE [err |-> "-", out |-> <<>>]

\* the key and the default value the replacer reads in the text between the
\* braces
KeyOf(inner) ==
    IF Contains(strip(inner), <<"|">>) THEN strip(Split(strip(inner), "|")[1])
    ELSE strip(inner)

HasBar(inner) == Contains(strip(inner), <<"|">>)

BarDefault(inner) ==
    LET raw_inner == strip(inner)
        default_part == strip(Drop(raw_inner, Len(Split(raw_inner, "|")[1]) + 1))
    IN  IF \/ StartsWith(default_part, <<"\"">>) /\ EndsWith(default_part, <<"\"">>)
           \/ StartsWith(default_part, <<"'">>) /\ EndsWith(default_part, <<"'">>)
        THEN SubSeq(default_part, 2, Len(default_part) - 1)
        ELSE default_part

\* what the try block of the replacer does for the text between the braces:
\* the string it returns, or the error it raises
Lookup(inner, context, strategy) ==
    LET key == KeyOf(inner)
    IN  IF validate_placeholder(key) # "ok"
        THEN [err |-> validate_placeholder(key), out |-> <<>>]
        ELSE LET found == Traverse(context, parse_path(key))
             IN  IF found.err # "-" THEN [err |-> found.err, out |-> <<>>]
                 ELSE IF found.val = None
                 THEN IF HasBar(inner) THEN [err |-> "-", out |-> BarDefault(inner)]
                      ELSE handle_missing(key, strategy)
                 ELSE [err |-> "-", out |-> to_string(found.val)]

\* the number of characters before the first "}"
RECURSIVE InnerLen(_)
InnerLen(s) == IF s # <<>> /\ Head(s) # "}" THEN 1 + InnerLen(Tail(s)) ELSE 0

\* the length of a match of {{([^}]+)}} at the start of s, 0 when there is none
MatchLen(s) ==
    IF StartsWith(s, OPEN) /\ InnerLen(Drop(s, 2)) > 0
       /\ StartsWith(Drop(s, 2 + InnerLen(Drop(s, 2))), CLOSE)
    THEN InnerLen(Drop(s, 2)) + 4
    ELSE 0

\* re.sub with the replacer, left to right: err is the error that left
\* resolve ("-" for none), out the string returned
RECURSIVE Substitute(_, _, _, _)
Substitute(s, context, strategy, throw_on_error) ==
    IF s = <<>> THEN [err |-> "-", out |-> <<>>]
    ELSE IF MatchLen(s) = 0
    THEN LET rest == Substitute(Tail(s), context, strategy, throw_on_error)
         IN  IF rest.err # "-" THEN rest
             ELSE [err |-> "-", out |-> <<Head(s)>> \o rest.out]
    ELSE LET group0 == Take(s, MatchLen(s))
             r == Lookup(SubSeq(group0, 3, Len(group0) - 2), context, strategy)
         IN  IF r.err # "-" /\ throw_on_error THEN [err |-> r.err, out |-> <<>>]
             ELSE LET rest == Substitute(Drop(s, MatchLen(s)), context, strategy,
                                         throw_on_error)
                  IN  IF rest.err # "-" THEN rest
                      ELSE [err |-> "-",
                            out |-> (IF r.err # "-" THEN group0 ELSE r.out) \o rest.out]

\* ResolverOptions: a field left unset is "None"
ResolverOptions(missing_strategy_option, throw_on_error) ==
    [missing_strategy |-> missing_strategy_option, throw_on_error |-> throw_on_error]

NoOptions == ResolverOptions("None", "None")

\* TemplateResolver.resolve that raises whatever throw_on_error says
tr_resolve_always_throws(template, context, options) ==
    Substitute(template, context,
               IF options.missing_strategy = "None" THEN "EMPTY" ELSE options.missing_strategy,
               TRUE)

\* TemplateResolver.resolve: an unset strategy reads as EMPTY, an unset
\* throw_on_error as False
tr_resolve(template, context, options) ==
    Substitute(template, context,
               IF options.missing_strategy = "None" THEN "EMPTY" ELSE options.missing_strategy,
               options.throw_on_error = "True")

-----------------------------------------------------------------------------
(* polyglot/runtime_template_resolver: batch.py and context_resolver.py    *)

\* the literal in the test at the top of batch.resolve_object
BATCH_DEPTH_LIMIT == 10

\* batch.resolve_object: the tree it returns, or the error that leaves it
RECURSIVE batch_resolve_object(_, _, _, _), BatchEach(_, _, _, _)
batch_resolve_object(obj, context, options, depth) ==
    IF depth > BATCH_DEPTH_LIMIT THEN [err |-> "-", val |-> obj]
    ELSE IF obj.t = "str"
    THEN LET r == tr_resolve(obj.s, context, options)
         IN  [err |-> r.err, val |-> IF r.err = "-" THEN StrV(r.out) ELSE None]
    ELSE IF obj.t = "list"
    THEN LET r == BatchEach(obj.l, context, options, depth + 1)
         IN  [err |-> r.err, val |-> IF r.err = "-" THEN List(r.vals) ELSE None]
    ELSE IF obj.t = "dict"
    THEN LET r == BatchEach([i \in 1..Len(obj.kv) |-> obj.kv[i].v], context, options,
                            depth + 1)
         IN  [err |-> r.err,
              val |-> IF r.err = "-"
                      THEN Dict([i \in 1..Len(obj.kv) |-> KV(obj.kv[i].k, r.vals[i])])
                      ELSE None]
    ELSE [err |-> "-", val |-> obj]
BatchEach(nodes, context, options, depth) ==
    IF nodes = <<>> THEN [err |-> "-", vals |-> <<>>]
    ELSE LET a == batch_resolve_object(Head(nodes), context, options, depth)
         IN  IF a.err # "-" THEN [err |-> a.err, vals |-> <<>>]
             ELSE LET b == BatchEach(Tail(nodes), context, options, depth)
                  IN  IF b.err # "-" THEN b
                      ELSE [err |-> "-", vals |-> <<a.val>> \o b.vals]

\* ContextResolver.COMPUTE_PATTERN, ^\s*\{\{fn:(\w+)\}\}\s*$ : the name, or
\* NoMatch
rtr_COMPUTE_PATTERN(expression) ==
    LET e == strip(expression)
        name == SubSeq(e, Len(FNPREFIX) + 1, Len(e) - Len(CLOSE))
    IN  IF StartsWith(e, FNPREFIX) /\ EndsWith(e, CLOSE)
           /\ Len(e) > Len(FNPREFIX) + Len(CLOSE) /\ AllIn(name, WordChar)
        THEN [matched |-> TRUE, name |-> name]
        ELSE [matched |-> FALSE, name |-> <<>>]

\* ContextResolver.resolve of this package; done counts the runs of each
\* function body so far
ctx_resolve(expression, context, options, done) ==
    LET m == rtr_COMPUTE_PATTERN(expression)
    IN  IF m.matched
        THEN IF m.name \notin DOMAIN rtr_functions
             THEN [err |-> "ComputeFunctionError", val |-> None, calls |-> done]
             ELSE LET f == rtr_functions[m.name].fn
                      r == CallSync(f, done[f.id])
                  IN  [err |-> IF r.ok THEN "-" ELSE "ComputeFunctionError",
                       val |-> r.val,
                       calls |-> [done EXCEPT ![f.id] = @ + r.runs]]
        ELSE LET r == tr_resolve(expression, context, options)
             IN  [err |-> r.err, val |-> IF r.err = "-" THEN StrV(r.out) ELSE None,
                  calls |-> done]

\* ContextResolver.resolve_object of this package: no depth is counted
RECURSIVE ctx_resolve_object(_, _, _, _), CtxEach(_, _, _, _)
ctx_resolve_object(obj, context, options, done) ==
    IF obj.t = "str" THEN ctx_resolve(obj.s, context, options, done)
    ELSE IF obj.t = "dict"
    THEN LET r == CtxEach([i \in 1..Len(obj.kv) |-> obj.kv[i].v], context, options, done)
         IN  [err |-> r.err,
              val |-> IF r.err = "-"
                      THEN Dict([i \in 1..Len(obj.kv) |-> KV(obj.kv[i].k, r.vals[i])])
                      ELSE None,
              calls |-> r.calls]
    ELSE IF obj.t = "list"
    THEN LET r == CtxEach(obj.l, context, options, done)
         IN  [err |-> r.err, val |-> IF r.err = "-" THEN List(r.vals) ELSE None,
              calls |-> r.calls]
    ELSE [err |-> "-", val |-> obj, calls |-> done]
CtxEach(nodes, context, options, done) ==
    IF nodes = <<>> THEN [err |-> "-", vals |-> <<>>, calls |-> done]
    ELSE LET a == ctx_resolve_object(Head(nodes), context, options, done)
         IN  IF a.err # "-" THEN [err |-> a.err, vals |-> <<>>, calls |-> a.calls]
             ELSE LET b == CtxEach(Tail(nodes), context, options, a.calls)
                  IN  IF b.err # "-" THEN b
                      ELSE [err |-> "-", vals |-> <<a.val>> \o b.vals, calls |-> b.calls]

-----------------------------------------------------------------------------
(* SpecTemplate: one call of TemplateResolver.resolve, of                  *)
(* TemplateResolver.resolve_object or of ContextResolver.resolve_object of *)
(* polyglot/runtime_template_resolver, on bounded templates and trees      *)

MaxTrPieces == 2

K_l == <<"l">>
P_abp == <<"a", ".", "b", ".", "_", "p">>
P_l0 == <<"l", "[", "0", "]">>
L_hi == <<"h", "i", " ">>

\* the placeholders and the plain text the templates are made of
TrPlaceholders ==
    {Tmpl(P_ab), Tmpl(P_m), Tmpl(P_private), Tmpl(P_traversal), Tmpl(P_abp),
     Tmpl(P_l0), Tmpl(K_a),
     OPEN \o <<" ", "m", " ", "|", " ", "'", "d", "'", " ">> \o CLOSE}
TrPieces == TrPlaceholders \cup {L_hi}

TrPieceLists == UNION {[1..n -> TrPieces] : n \in 0..MaxTrPieces}

C_tr == Dict(<<KV(K_a, StrV(K_x)), KV(K_n, IntV(5)),
               KV(K_l, List(<<StrV(K_y), BoolV(TRUE)>>))>>)
TrContexts == {C_empty, C_a, C_tr}

TrOptions ==
    {ResolverOptions(s, t) : s \in rtr_MissingStrategy \cup {"None"},
                             t \in {"None", "False", "True"}}

\* the string leaf inside k containers: it lies at depth k
RECURSIVE NestLeaf(_, _)
NestLeaf(leaf, k) ==
    IF k = 0 THEN leaf
    ELSE IF k % 2 = 0 THEN List(<<NestLeaf(leaf, k - 1)>>)
    ELSE Dict(<<KV(K_x, NestLeaf(leaf, k - 1))>>)

TrTrees ==
    {NestLeaf(StrV(leaf), k) :
         leaf \in {Tmpl(P_ab), Tmpl(P_private), Comp(N_f), L_hi},
         k \in {0, 1, BATCH_DEPTH_LIMIT, BATCH_DEPTH_LIMIT + 1, BATCH_DEPTH_LIMIT + 2}}
    \cup {Dict(<<KV(K_x, StrV(Comp(N_f))), KV(K_y, StrV(Comp(N_f))), KV(K_n, IntV(5))>>)}

RtrTables == {Empty, Put(Empty, N_f, [fn |-> F_ctx, scope |-> STARTUP])}

\* the arguments of a call that has not run yet; pieces are the parts the
\* template was written from
TrCall(api, obj, pieces, context, options) ==
    Called(api, [t |-> "args", obj |-> obj, pieces |-> pieces, options |-> options],
           context, "-", 0, "call", None, "-", 0, 0, TRUE)

InitTemplate ==
    /\ functions = Empty
    /\ cache = Empty
    /\ missing_strategy = "ERROR"
    /\ calls = [id \in FnIds |-> 0]
    /\ tasks = [t \in Tasks |-> Idle]
    /\ \/ \E ps \in TrPieceLists, c \in TrContexts, o \in TrOptions :
              last = TrCall("tr.resolve", StrV(Concat(ps)), ps, c, o)
       \/ \E api \in {"tr.resolve_object", "ctx.resolve_object"},
             obj \in TrTrees, c \in TrContexts, o \in TrOptions :
              last = TrCall(api, obj, <<>>, c, o)
    /\ hist = [n \in Names |-> FreshHist(TRUE, TRUE)]
    /\ nRegs = 0
    /\ nCalls = 0
    /\ app = NoApp
    /\ rtr_functions \in (IF last.api = "ctx.resolve_object" THEN RtrTables ELSE {Empty})
    /\ NoPath /\ NoRaw

TrQuiet ==
    UNCHANGED <<functions, cache, missing_strategy, tasks, hist, nRegs, nCalls, app, path,
                verdict, raw, parsed, rtr_functions>>

\* TemplateResolver.resolve(template, context, options)
TrResolve ==
    /\ last.api = "tr.resolve" /\ last.k = "call"
    /\ LET r == tr_resolve(last.arg.obj.s, last.context, last.arg.options)
       IN  last' = [last EXCEPT !.k = IF r.err = "-" THEN "return" ELSE "raise",
                                !.val = IF r.err = "-" THEN StrV(r.out) ELSE None,
                                !.err = r.err]
    /\ UNCHANGED calls
    /\ TrQuiet

\* TemplateResolver.resolve_object(obj, context, options)
TrResolveObject ==
    /\ last.api = "tr.resolve_object" /\ last.k = "call"
    /\ LET r == batch_resolve_object(last.arg.obj, last.context, last.arg.options, 0)
       IN  last' = [last EXCEPT !.k = IF r.err = "-" THEN "return" ELSE "raise",
                                !.val = r.val, !.err = r.err]
    /\ UNCHANGED calls
    /\ TrQuiet

\* ContextResolver.resolve_object(obj, context, options)
CtxResolveObject ==
    /\ last.api = "ctx.resolve_object" /\ last.k = "call"
    /\ LET r == ctx_resolve_object(last.arg.obj, last.context, last.arg.options, calls)
       IN  /\ last' = [last EXCEPT !.k = IF r.err = "-" THEN "return" ELSE "raise",
                                   !.val = r.val, !.err = r.err]
           /\ calls' = r.calls
    /\ TrQuiet

NextTemplate == TrResolve \/ TrResolveObject \/ CtxResolveObject

SpecTemplate == InitTemplate /\ [][NextTemplate]_vars

-----------------------------------------------------------------------------
(* The rules of the Security Validator, as a predicate on paths            *)

\* re.match of ^[A-Za-z]<tail>*$ where tail is the class of the later characters
MatchesPathRegex(p, tail) ==
    \E core \in BeforeDollar(p) :
        core # <<>> /\ core[1] \in Letter /\ \A i \in 2..Len(core) : core[i] \in tail

Segments(p) == {Split(p, ".")[i] : i \in 1..Len(Split(p, "."))}

Rejected(p, tail) ==
    \/ p = <<>>
    \/ ~MatchesPathRegex(p, tail)
    \/ \E seg \in Segments(p) : seg \in {W_proto, W_class, W_dict, W_constructor, W_prototype}
    \/ \E seg \in Segments(p) : seg # <<>> /\ seg[1] = "_"
    \/ \E i \in 1..(Len(p) - 1) : p[i] = "." /\ p[i + 1] = "."

-----------------------------------------------------------------------------
(* The shapes of expression the properties speak about                     *)

ComputeOn(n) == {StrV(Comp(n))} \cup {StrV(CompD(n, d)) : d \in Defaults}
TemplateOn(p) == {StrV(Tmpl(p))} \cup {StrV(TmplD(p, d)) : d \in Defaults}
DefaultOf(e) ==
    CHOOSE d \in Defaults \cup {<<>>} :
        \/ d \in Defaults /\ \E n \in Names : e = StrV(CompD(n, d))
        \/ d \in Defaults /\ \E p \in Paths : e = StrV(TmplD(p, d))
        \/ d = <<>> /\ \A x \in Defaults :
               /\ \A n \in Names : e # StrV(CompD(n, x))
               /\ \A p \in Paths : e # StrV(TmplD(p, x))
HasDefault(e) == DefaultOf(e) # <<>>

\* the typed value of each default literal of the model
Coerced(d) ==
    CASE d = D_d -> StrV(<<"d">>)
      [] d = D_42 -> IntV(42)
      [] d = D_true -> BoolV(TRUE)

Registered(n, scope) == n \in DOMAIN functions /\ functions[n].scope = scope

\* the last call was resolver.resolve or resolve_object on the one string e
ResolvedString(e) ==
    /\ last.api \in {"resolve", "resolve_object"}
    /\ last.arg = e
    /\ last.depth <= max_depth

-----------------------------------------------------------------------------
(* Properties of Spec                                                      *)

\* C1: a STARTUP function that was not yet cached is executed at most once
\* in total, also when several resolutions of it are in flight together, and
\* every caller receives that single result.
C1_ComputeOnce ==
    \A n \in Names :
        (/\ Registered(n, STARTUP)
         /\ functions[n].fn = F_async
         /\ hist[n].uncached /\ hist[n].quiet)
        => hist[n].runs <= 1 /\ Cardinality(hist[n].rets) <= 1

C6_NoCachingLaw ==
    \A n \in Names :
        (/\ Registered(n, REQUEST)
         /\ hist[n].seq
         /\ \/ last.api = "registry.resolve" /\ last.arg = StrV(n)
            \/ last.api = "resolve" /\ last.arg \in ComputeOn(n) /\ last.scope = REQUEST)
        => /\ last.runs = 1
           /\ last.cacheSame
           /\ last.k = "return" =>
                  last.val = Ret(functions[n].fn.id, calls[functions[n].fn.id])

-----------------------------------------------------------------------------
(* Properties of SpecResolve                                               *)

C4_SecurityFirst ==
    \A p \in Paths : \A e \in TemplateOn(p) :
        (ResolvedString(e) /\ Rejected(p, Letter \cup Digit \cup {"_", "."}))
        => /\ last.k = "raise"
           /\ last.err = SECURITY_BLOCKED_PATH
           /\ last.lookups = 0

\* a blocked path with an inline default raised under the IGNORE strategy
C4_Witness ==
    /\ ResolvedString(StrV(TmplD(P_ctor, D_d)))
    /\ missing_strategy = "IGNORE"
    /\ last.err = SECURITY_BLOCKED_PATH

MissingPathCase(e) ==
    \E p \in Paths :
        /\ e \in TemplateOn(p)
        /\ ~Rejected(p, Letter \cup Digit \cup {"_", "."})
        /\ _get_value_by_path(last.context, p).val.t = "none"
UnknownFunctionCase(e) == \E n \in Names : e \in ComputeOn(n) /\ n \notin DOMAIN functions
FailingFunctionCase(e) ==
    \E n \in Names :
        /\ e \in ComputeOn(n)
        /\ n \in DOMAIN functions
        /\ ~(functions[n].scope = REQUEST /\ last.scope = STARTUP)
        /\ functions[n].fn \in {F_fail, F_afail, F_typeerr}
        /\ last.runs >= 1

\* C8: when the expression carries a default literal, a missing path, an
\* unknown function and a function that fails each yield the coerced default,
\* under every missing_strategy; no error is raised.
C8_DefaultWins ==
    \A e \in Exprs :
        (/\ ResolvedString(e) /\ last.api = "resolve"
         /\ HasDefault(e)
         /\ MissingPathCase(e) \/ UnknownFunctionCase(e) \/ FailingFunctionCase(e))
        => last.k = "return" /\ last.val = Coerced(DefaultOf(e))

\* under the ERROR strategy a function ran, failed, and the default came back
C8_Witness ==
    /\ ResolvedString(StrV(CompD(N_g, D_42)))
    /\ last.api = "resolve"
    /\ missing_strategy = "ERROR"
    /\ N_g \in DOMAIN functions /\ functions[N_g].fn = F_fail
    /\ last.runs = 1
    /\ last.val = IntV(42)

\* C9: a template whose path is missing and that has no default follows the
\* missing_strategy: ERROR raises, IGNORE returns the token, DEFAULT returns
\* an empty or none value.
C9_MissingFollowsStrategy ==
    \A e \in Exprs :
        (ResolvedString(e) /\ last.api = "resolve" /\ ~HasDefault(e) /\ MissingPathCase(e))
        => /\ missing_strategy = "ERROR" => last.k = "raise"
           /\ missing_strategy = "IGNORE" => last.k = "return" /\ last.val = e
           /\ missing_strategy = "DEFAULT" =>
                  last.k = "return" /\ last.val \in {None, StrV(<<>>)}

\* C10: {{fn:n}} with n not registered and without default follows the
\* missing_strategy: ERROR raises COMPUTE_FUNCTION_NOT_FOUND, IGNORE returns
\* the token, DEFAULT returns None; no function runs, the cache is unchanged.
C10_UnknownFunctionFollowsStrategy ==
    \A n \in Names :
        (ResolvedString(StrV(Comp(n))) /\ n \notin DOMAIN functions)
        => /\ missing_strategy = "ERROR" =>
                  last.k = "raise" /\ last.err = COMPUTE_FUNCTION_NOT_FOUND
           /\ missing_strategy = "IGNORE" =>
                  last.k = "return" /\ last.val = StrV(Comp(n))
           /\ missing_strategy = "DEFAULT" => last.k = "return" /\ last.val = None
           /\ last.runs = 0
           /\ last.cacheSame

\* the token came back under IGNORE while another function's result is cached
C10_Witness ==
    /\ ResolvedString(StrV(Comp(N_g)))
    /\ N_g \notin DOMAIN functions
    /\ missing_strategy = "IGNORE"
    /\ last.val = StrV(Comp(N_g))
    /\ N_f \in DOMAIN cache

-----------------------------------------------------------------------------
(* Properties of SpecRegistry                                              *)

\* the body of f raises when the registry calls it with the context
Raises(f) == f.params # "none" /\ f.with \in {"err", "typeerr"}

\* the last call was registry.resolve(n)
RegistryResolved(n) == last.api = "registry.resolve" /\ last.arg = StrV(n)

\* C11: an exception raised by a registered function, sync or async, during
\* ComputeRegistry.resolve surfaces as ComputeFunctionError with code
\* COMPUTE_FUNCTION_FAILED; the failed execution stores nothing in the cache,
\* so a STARTUP function that failed has no cache entry afterwards.
C11_FailureWrapping ==
    \A n \in Names :
        (/\ RegistryResolved(n)
         /\ n \in DOMAIN functions
         /\ Raises(functions[n].fn)
         /\ last.runs >= 1)
        => /\ last.k = "raise"
           /\ last.err = COMPUTE_FUNCTION_FAILED
           /\ functions[n].scope = STARTUP => n \notin DOMAIN cache

-----------------------------------------------------------------------------
(* Present-and-null against missing                                        *)

\* whether the keys lead to an item of the context, and the item's value
RECURSIVE At(_, _)
At(node, keys) ==
    IF keys = <<>> THEN [present |-> TRUE, val |-> node]
    ELSE IF node.t = "dict" /\ \E i \in 1..Len(node.kv) : node.kv[i].k = Head(keys)
         THEN At(DictGet(node, Head(keys)), Tail(keys))
         ELSE [present |-> FALSE, val |-> None]

PresentNull(context, p) ==
    At(context, Split(p, ".")).present /\ At(context, Split(p, ".")).val = None

\* C12: a template whose path exists in the context with value null is not
\* treated as missing: the null value is returned, and neither the inline
\* default nor the missing_strategy is applied.
C12_NullIsNotMissing ==
    \A e \in Exprs : \A p \in Paths :
        (/\ ResolvedString(e) /\ last.api = "resolve"
         /\ e \in TemplateOn(p)
         /\ ~Rejected(p, Letter \cup Digit \cup {"_", "."})
         /\ PresentNull(last.context, p))
        => last.k = "return" /\ last.val = None

-----------------------------------------------------------------------------
(* Properties of SpecDefault                                               *)

\* an optionally signed run of digits with exactly one decimal point in it
DecimalPointNumeric(s) ==
    LET parts == Split(Unsigned(s), ".")
    IN  /\ Len(parts) = 2
        /\ parts[1] # <<>> \/ parts[2] # <<>>
        /\ AllIn(parts[1], Digit) /\ AllIn(parts[2], Digit)

IsBoolLiteral(s) == lower(s) \in {<<"t", "r", "u", "e">>, <<"f", "a", "l", "s", "e">>}

\* C13: _parse_default gives a boolean iff the literal is true or false in any
\* case; otherwise an integer iff it is all digits; otherwise a float iff it
\* contains a decimal point and is otherwise numeric; in every other case the
\* string itself, verbatim.
C13_DefaultCoercion ==
    parsed.done =>
        /\ parsed.val.t = "bool" <=> IsBoolLiteral(raw)
        /\ parsed.val.t = "int" <=> (~IsBoolLiteral(raw) /\ isdigit(raw))
        /\ parsed.val.t = "float"
               <=> (~IsBoolLiteral(raw) /\ ~isdigit(raw) /\ DecimalPointNumeric(raw))
        /\ parsed.val.t \in {"bool", "int", "float"} \/ parsed.val = StrV(raw)

-----------------------------------------------------------------------------
(* Properties of SpecTree                                                  *)

IsContainer(node) == node.t \in {"dict", "list"}
Children(node) ==
    IF node.t = "dict" THEN [i \in 1..Len(node.kv) |-> node.kv[i].v]
    ELSE IF node.t = "list" THEN node.l ELSE <<>>

\* some node of the tree lies deeper than max_depth, the root being at depth d
RECURSIVE HasDeepNode(_, _)
HasDeepNode(node, d) ==
    \/ d > max_depth
    \/ \E i \in 1..Len(Children(node)) : HasDeepNode(Children(node)[i], d + 1)

\* what comes first in visiting order: a node deeper than max_depth ("deep"),
\* a string leaf ("str"), or neither ("none")
RECURSIVE FirstOf(_, _), FirstOfSeq(_, _)
FirstOf(node, d) ==
    IF d > max_depth THEN "deep"
    ELSE IF node.t = "str" THEN "str"
    ELSE FirstOfSeq(Children(node), d + 1)
FirstOfSeq(nodes, d) ==
    IF nodes = <<>> THEN "none"
    ELSE IF FirstOf(Head(nodes), d) # "none" THEN FirstOf(Head(nodes), d)
    ELSE FirstOfSeq(Tail(nodes), d)

\* C14: resolve_object started at depth 0 counts one level per dict or list;
\* a tree with a node deeper than max_depth makes it raise and return no
\* partial tree, with RecursionLimitError as soon as that node is visited (so
\* before any string is resolved when the node comes first); a tree whose
\* nodes all lie within max_depth never raises RecursionLimitError; resolve
\* on a string at a depth above max_depth raises RecursionLimitError.
C14_RecursionLimit ==
    /\ last.api = "resolve_object" =>
           /\ HasDeepNode(last.arg, 0) => last.k = "raise" /\ last.val = None
           /\ FirstOf(last.arg, 0) = "deep" =>
                  /\ last.err = RECURSION_LIMIT
                  /\ last.runs = 0 /\ last.lookups = 0 /\ last.cacheSame
           /\ ~HasDeepNode(last.arg, 0) => last.err # RECURSION_LIMIT
    /\ (last.api = "resolve" /\ last.arg.t = "str" /\ last.depth > max_depth) =>
           last.k = "raise" /\ last.err = RECURSION_LIMIT

\* a string leaf was resolved by a function, then the deep branch stopped the
\* call
C14_Witness ==
    /\ last.api = "resolve_object" /\ last.arg = T_late
    /\ last.runs = 1
    /\ last.k = "raise" /\ last.err = RECURSION_LIMIT

-----------------------------------------------------------------------------
(* The FastAPI lifecycle, under Spec                                       *)

\* C15: get_request_config returns only on an app for which a resolve_startup
\* call has completed without error, and raises RuntimeError on an app with
\* none; app.state changes only when a resolve_startup call returns, which
\* stores the raw and the resolved config, so a resolve_startup call that
\* raises propagates its error and stores nothing.
C15_StartupBeforeRequest ==
    [][/\ app' # app =>
           /\ last'.api = "resolve_startup" /\ last'.k = "return"
           /\ app' = [configured |-> TRUE, raw_config |-> last'.arg, config |-> last'.val]
       /\ (last' # last /\ last'.api = "resolve_startup" /\ last'.k = "raise") =>
           app' = app /\ last'.err # "-"
       /\ (last' # last /\ last'.api = "get_request_config") =>
           /\ last'.k = "return" => app.configured
           /\ ~app.configured => last'.k = "raise" /\ last'.err = "RuntimeError"
      ]_vars

\* a startup resolution met a REQUEST function, raised, and left the app
\* unconfigured
C15_Witness ==
    /\ last.api = "resolve_startup"
    /\ last.k = "raise" /\ last.err = SCOPE_VIOLATION
    /\ ~app.configured

-----------------------------------------------------------------------------
(* Clearing, under SpecRegistry                                            *)

\* C16: clear_cache() removes every cached result and leaves the registered
\* functions and their scopes unchanged, so the next resolve of a STARTUP
\* function executes it exactly once; clear() removes all functions and all
\* cached results, so the next resolve of any name raises
\* COMPUTE_FUNCTION_NOT_FOUND.
C16_CacheClearing ==
    [][/\ (last' # last /\ last'.api = "clear_cache") =>
           cache' = Empty /\ functions' = functions
       /\ (last' # last /\ last'.api = "clear") =>
           cache' = Empty /\ functions' = Empty
       /\ \A n \in Names :
              (/\ last.api = "clear_cache" /\ Busy = {}
               /\ Registered(n, STARTUP)
               /\ last' # last /\ last'.api = "registry.resolve" /\ last'.arg = StrV(n))
              => last'.runs = 1
       /\ (/\ last.api = "clear" /\ Busy = {}
           /\ last' # last /\ last'.api = "registry.resolve")
          => last'.k = "raise" /\ last'.err = COMPUTE_FUNCTION_NOT_FOUND
      ]_vars

\* C17: after register(name, f2, s2) on a registered name, the name is listed,
\* get_scope(name) is s2, and every later resolve(name) returns a result of
\* the function now registered, never one produced by the function it
\* replaced.
C17_RegistrationOverwrites ==
    \A n \in Names :
        /\ (last.api = "register" /\ last.arg = StrV(n) /\ last.k = "return") =>
               has(n) /\ get_scope(n) = last.scope
        /\ (RegistryResolved(n) /\ last.k = "return" /\ has(n)) =>
               \E k \in 1..calls[functions[n].fn.id] : last.val = Ret(functions[n].fn.id, k)

-----------------------------------------------------------------------------
(* Properties of SpecRtr                                                   *)

\* C18: in polyglot/runtime_template_resolver, register on an already
\* registered name raises ValueError (already registered) and leaves the
\* registry unchanged: the original function and scope stay registered
\* under that name.
C18_DuplicateRejected ==
    [][\A n \in Names :
          (n \in DOMAIN rtr_functions /\ last'.api = "rtr.register" /\ last'.arg = StrV(n)
           /\ nRegs' # nRegs)
          => /\ last'.k = "raise"
             /\ last'.err = "Function already registered"
             /\ rtr_functions' = rtr_functions
      ]_vars

\* a second registration under a registered name was refused
C18_Witness ==
    /\ last.api = "rtr.register" /\ last.arg = StrV(N_f)
    /\ last.err = "Function already registered"
    /\ N_f \in DOMAIN rtr_functions
    /\ rtr_functions[N_f].scope # last.scope

-----------------------------------------------------------------------------
(* Properties of SpecNames                                                 *)

\* re.match of ^[A-Za-z_][A-Za-z0-9_]*$ finds a match in name
MatchesNameRegex(name) ==
    \E core \in BeforeDollar(name) :
        /\ core # <<>>
        /\ core[1] \in Letter \cup {"_"}
        /\ \A i \in 2..Len(core) : core[i] \in Letter \cup Digit \cup {"_"}

-----------------------------------------------------------------------------
(* Identity, under SpecTree                                                *)

\* s holds an opening {{ with a closing }} somewhere after it
HasPlaceholder(s) ==
    \E i \in 1..Len(s) : \E j \in (i + 2)..(Len(s) - 1) :
        s[i] = "{" /\ s[i + 1] = "{" /\ s[j] = "}" /\ s[j + 1] = "}"

\* b has the shape of a and, where a has a leaf that is no string, the same leaf
RECURSIVE SameScalars(_, _)
SameScalars(a, b) ==
    IF IsContainer(a)
    THEN /\ b.t = a.t
         /\ Len(Children(b)) = Len(Children(a))
         /\ \A i \in 1..Len(Children(a)) : SameScalars(Children(a)[i], Children(b)[i])
    ELSE a.t = "str" \/ b = a

\* C20: resolve returns its input unchanged for every value that is no string,
\* at any depth argument, and for every string without a {{...}} placeholder;
\* no function is invoked, no path looked up, and the cache is unchanged;
\* resolve_object returns the leaves that are no strings unchanged.
C20_IdentityLaw ==
    /\ (/\ last.api = "resolve"
        /\ \/ last.arg.t # "str"
           \/ ~HasPlaceholder(last.arg.s) /\ last.depth <= max_depth)
       => /\ last.k = "return" /\ last.val = last.arg
          /\ last.runs = 0 /\ last.lookups = 0 /\ last.cacheSame
    /\ (last.api = "resolve_object" /\ last.k = "return") =>
           SameScalars(last.arg, last.val)

\* a value that is no string came back from a depth beyond the limit while the
\* cache held a result
C20_Witness ==
    /\ last.api = "resolve" /\ last.arg = IntV(5) /\ last.depth = max_depth + 1
    /\ last.k = "return" /\ last.val = IntV(5)
    /\ cache # Empty

-----------------------------------------------------------------------------
(* Properties of SpecMany                                                  *)

\* resolve applied to the expressions one after the other, each at depth 0,
\* every call starting from what the one before left
RECURSIVE ResolveEach(_, _, _, _, _)
ResolveEach(exprs, context, scope, st, acc) ==
    IF exprs = <<>> THEN [k |-> "return", err |-> "-", vals |-> acc, st |-> st]
    ELSE LET r == resolve(Head(exprs), context, scope, 0, missing_strategy, max_depth, st)
         IN  IF r.k = "return"
             THEN ResolveEach(Tail(exprs), context, scope, r.st, Append(acc, r.val))
             ELSE [k |-> r.k, err |-> r.err, vals |-> acc, st |-> r.st]

\* C21: resolve_many returns a list as long as its input whose i-th element
\* is what resolve gives for the i-th expression, the expressions being
\* resolved in input order (so the functions are invoked in that order and
\* leave the same cache); when one of them raises, resolve_many raises the
\* same error; the empty list yields the empty list.
C21_BatchResolution ==
    [][\A exprs \in ManyLists :
          (nCalls' # nCalls /\ last'.api = "resolve_many" /\ last'.arg = List(exprs))
          => LET each == ResolveEach(exprs, last'.context, last'.scope,
                                     [cache |-> cache, calls |-> calls, hist |-> hist],
                                     <<>>)
             IN  /\ last'.k = each.k
                 /\ last'.err = each.err
                 /\ each.k = "return" =>
                        /\ last'.val = List(each.vals)
                        /\ Len(last'.val.l) = Len(exprs)
                 /\ cache' = each.st.cache
                 /\ calls' = each.st.calls
      ]_vars

\* two functions of a list ran in list order, a value that is no string
\* between them
C21_Witness ==
    /\ last.api = "resolve_many"
    /\ last.arg = List(<<StrV(Comp(N_g)), IntV(5), StrV(Comp(N_f))>>)
    /\ last.k = "return"
    /\ last.val = List(<<Ret("ctx", 1), IntV(5), Ret("ctx", 2)>>)

-----------------------------------------------------------------------------
(* Properties of SpecReadOnly                                              *)

\* b has the containers of a: the same kinds, the same keys in the same
\* order, the same list lengths
RECURSIVE SameShape(_, _)
SameShape(a, b) ==
    IsContainer(a) =>
        /\ b.t = a.t
        /\ Len(Children(b)) = Len(Children(a))
        /\ a.t = "dict" => \A i \in 1..Len(a.kv) : b.kv[i].k = a.kv[i].k
        /\ \A i \in 1..Len(Children(a)) : SameShape(Children(a)[i], Children(b)[i])

ObjectCalls == {"resolve_object", "resolve_startup", "get_request_config"}

-----------------------------------------------------------------------------
(* Properties of SpecWhitespace                                            *)

\* the call that just ended resolved written, and did what resolve does for
\* canonical from the same state
ResolvesAs(written, canonical) ==
    (nCalls' # nCalls /\ last'.api = "resolve" /\ last'.arg = StrV(written))
    => LET r == resolve(StrV(canonical), last'.context, last'.scope, 0,
                        missing_strategy, max_depth,
                        [cache |-> cache, calls |-> calls, hist |-> hist])
       IN  /\ last'.k = r.k
           /\ last'.val = r.val
           /\ last'.err = r.err
           /\ cache' = r.st.cache

\* C23: blanks around the tokens inside a placeholder do not change the
\* result: {{ p }} resolves exactly as {{p}}, {{ fn:n }} exactly as
\* {{fn:n}}, and {{p | 'd' }} exactly as {{p | 'd'}}.
C23_WhitespaceInsignificant ==
    [][\A pair \in WhitespacePairs : ResolvesAs(pair[2], pair[1])]_vars

\* blanks around the pipe alone are insignificant
PipeBlanksInsignificant ==
    [][\A pair \in PipePairs : ResolvesAs(pair[2], pair[1])]_vars

-----------------------------------------------------------------------------
(* Properties of SpecTemplate                                              *)

StrategyOf(options) ==
    IF options.missing_strategy = "None" THEN "EMPTY" ELSE options.missing_strategy

\* what the lookup of the placeholder of a piece does; plain text has none
PieceLookup(piece, context, options) ==
    IF piece \in TrPlaceholders
    THEN Lookup(SubSeq(piece, 3, Len(piece) - 2), context, StrategyOf(options))
    ELSE [err |-> "-", out |-> piece]

\* the text that stands for the piece in the output of a call that returns
PieceText(piece, context, options) ==
    IF PieceLookup(piece, context, options).err # "-" THEN piece
    ELSE PieceLookup(piece, context, options).out

FailingPieces(pieces, context, options) ==
    {i \in 1..Len(pieces) : PieceLookup(pieces[i], context, options).err # "-"}

\* C24: with throw_on_error unset or false an error raised for one
\* placeholder is not propagated: resolve returns, the failing placeholder
\* keeps its own text and every other placeholder is substituted; with
\* throw_on_error true the error of the first failing placeholder leaves
\* resolve and nothing is returned.
C24_ErrorMode ==
    (last.api = "tr.resolve" /\ last.k # "call")
    => LET ps == last.arg.pieces
           failing == FailingPieces(ps, last.context, last.arg.options)
       IN  IF last.arg.options.throw_on_error = "True" /\ failing # {}
           THEN /\ last.k = "raise"
                /\ last.val = None
                /\ last.err = PieceLookup(ps[CHOOSE i \in failing : \A j \in failing : i <= j],
                                          last.context, last.arg.options).err
           ELSE /\ last.k = "return"
                /\ last.err = "-"
                /\ last.val = StrV(Concat([i \in 1..Len(ps) |->
                                              PieceText(ps[i], last.context,
                                                        last.arg.options)]))

\* a call without throw_on_error returned a template in which one
\* placeholder failed and kept its text while another one was substituted
C24_Witness ==
    /\ last.api = "tr.resolve" /\ last.k = "return"
    /\ last.arg.options.throw_on_error # "True"
    /\ Len(last.arg.pieces) = 2
    /\ last.arg.pieces[1] = Tmpl(P_private)
    /\ last.arg.pieces[2] = Tmpl(P_ab)
    /\ last.context = C_a
    /\ last.val = StrV(Tmpl(P_private) \o K_x)

-----------------------------------------------------------------------------
(* Properties of SpecRtr: the scopes                                       *)

\* C25: STARTUP means resolved once: a resolve of a STARTUP-scoped name right
\* after a resolve of the same name that returned executes nothing and
\* returns the same value.
C25_StartupResolvedOnce ==
    [][(/\ nRegs' # nRegs
        /\ last.api = "rtr.resolve" /\ last.k = "return"
        /\ last'.api = "rtr.resolve" /\ last'.arg = last.arg
        /\ last'.scope = STARTUP)
       => (last'.k = "return" /\ last'.runs = 0 /\ last'.val = last.val)]_vars

\* a REQUEST-scoped function is executed by every resolve
RequestResolvedEveryTime ==
    [][(/\ nRegs' # nRegs
        /\ last'.api = "rtr.resolve" /\ last'.scope = REQUEST)
       => last'.runs = 1]_vars

-----------------------------------------------------------------------------
(* Properties of SpecTemplate: depth                                       *)

\* some node of the tree lies deeper than the limit, the root being at depth d
RECURSIVE ExceedsLimit(_, _)
ExceedsLimit(node, d) ==
    \/ d > BATCH_DEPTH_LIMIT
    \/ \E i \in 1..Len(Children(node)) : ExceedsLimit(Children(node)[i], d + 1)

\* C26: both resolve_object entry points of polyglot/runtime_template_resolver
\* end the traversal of a tree that goes deeper than the depth limit with
\* RecursionLimitError, and return no tree.
C26_DepthLimit ==
    (/\ last.api \in {"tr.resolve_object", "ctx.resolve_object"}
     /\ last.k # "call"
     /\ ExceedsLimit(last.arg.obj, 0))
    => (last.k = "raise" /\ last.err = "RecursionLimitError" /\ last.val = None)

\* a tree within the limit never ends with RecursionLimitError
WithinLimitNoRecursionError ==
    (/\ last.api \in {"tr.resolve_object", "ctx.resolve_object"}
     /\ ~ExceedsLimit(last.arg.obj, 0))
    => last.err # "RecursionLimitError"

\* TemplateResolver.resolve_object returned a tree whose placeholder below
\* the limit is still there
BatchLeftPlaceholder ==
    /\ last.api = "tr.resolve_object" /\ last.k = "return"
    /\ last.context = C_a
    /\ last.arg.obj = NestLeaf(StrV(Tmpl(P_ab)), BATCH_DEPTH_LIMIT + 1)
    /\ last.val = last.arg.obj

\* ContextResolver.resolve_object resolved a leaf below the limit
CtxWentBelowLimit ==
    /\ last.api = "ctx.resolve_object" /\ last.k = "return"
    /\ last.context = C_a
    /\ last.arg.obj = NestLeaf(StrV(Tmpl(P_ab)), BATCH_DEPTH_LIMIT + 2)
    /\ last.val = NestLeaf(StrV(K_x), BATCH_DEPTH_LIMIT + 2)

-----------------------------------------------------------------------------
(* Properties of SpecRegistry: the arity fallback                          *)

\* the body of f raises TypeError when it runs with the context
BodyRaisesTypeError(f) == f.params # "none" /\ f.with = "typeerr"

\* C27: during one ComputeRegistry.resolve the body of the function runs at
\* most once; a body that raises TypeError after it started is not run
\* again, its error surfaces as COMPUTE_FUNCTION_FAILED.
C27_ArityFallback ==
    \A n \in Names :
        RegistryResolved(n)
        => /\ last.runs <= 1
           /\ (/\ n \in DOMAIN functions
               /\ BodyRaisesTypeError(functions[n].fn)
               /\ last.runs >= 1)
              => (last.k = "raise" /\ last.err = COMPUTE_FUNCTION_FAILED)

\* a resolve of a function whose body raises no TypeError runs it at most once
OneRunWithoutTypeError ==
    \A n \in Names :
        (/\ RegistryResolved(n)
         /\ n \in DOMAIN functions
         /\ ~BodyRaisesTypeError(functions[n].fn))
        => last.runs <= 1

-----------------------------------------------------------------------------
(* Properties of SpecRegistry: the result cache                            *)

\* C28: every key of the result cache is the name of a currently registered
\* STARTUP-scoped function, and its value was produced by the function
\* registered under that name.
C28_CacheInvariant ==
    \A n \in DOMAIN cache :
        /\ n \in DOMAIN functions
        /\ functions[n].scope = STARTUP
        /\ cache[n].t = "ret"
        /\ cache[n].s = <<functions[n].fn.id>>

-----------------------------------------------------------------------------
(* Properties of SpecResolve: what enters the STARTUP cache                *)

RequestKeepsCachedEntries ==
    [][\A n \in Names :
           (nCalls' # nCalls /\ last'.scope = REQUEST /\ n \in DOMAIN cache)
           => (n \in DOMAIN cache' /\ cache'[n] = cache[n])]_vars

-----------------------------------------------------------------------------
(* Properties of SpecTemplate: underscore-prefixed segments                *)

\* the segments of the path of a placeholder
SegmentsOf(piece) == parse_path(KeyOf(SubSeq(piece, 3, Len(piece) - 2)))

\* the n-th segment of the placeholder's path starts with "_"
PrivateAt(piece, n) ==
    /\ piece \in TrPlaceholders
    /\ validate_placeholder(KeyOf(SubSeq(piece, 3, Len(piece) - 2))) = "ok"
    /\ n <= Len(SegmentsOf(piece))
    /\ SegmentsOf(piece)[n][1] = "_"

\* the call resolved a template made of this one placeholder, with
\* throw_on_error true
ThrowingOn(piece) ==
    /\ last.api = "tr.resolve" /\ last.k # "call"
    /\ last.arg.pieces = <<piece>>
    /\ last.arg.options.throw_on_error = "True"

\* C30: with throw_on_error true a placeholder whose path has a segment that
\* starts with "_", at any position, raises SecurityError in every context.
C30_UnderscoreRejection ==
    \A piece \in TrPlaceholders :
        (ThrowingOn(piece) /\ \E n \in 1..Len(SegmentsOf(piece)) : PrivateAt(piece, n))
        => (last.k = "raise" /\ last.err = "SecurityError")

\* an underscore-prefixed first segment is rejected in every context
PrivateFirstSegmentRejected ==
    \A piece \in TrPlaceholders :
        (ThrowingOn(piece) /\ PrivateAt(piece, 1))
        => (last.k = "raise" /\ last.err = "SecurityError")

\* {{a.b._p}} was resolved to the empty string where the context has no a
PrivateSegmentPassed ==
    /\ ThrowingOn(Tmpl(P_abp))
    /\ last.context = C_empty
    /\ last.k = "return" /\ last.val = StrV(<<>>)

====
